---- MODULE Spec2Model ----
(***************************************************************************)
(* State-machine model of the OFDM receiver front end of DAB-Radio         *)
(* (src/src/ofdm/ofdm_demodulator.cpp): the ingest state machine driven by *)
(* OFDM_Demod::Process, the coordinator thread, the pipeline worker        *)
(* threads, the double buffer and the frequency offsets they share.        *)
(*                                                                         *)
(* Frequencies are fixed-point numbers: one unit is 1/(nb_fft * FreqQ)     *)
(* cycles per sample, so one FFT bin is FreqQ units.  Buffer contents are  *)
(* represented by the number of the frame whose samples they hold.         *)
(***************************************************************************)
EXTENDS Integers, Sequences, FiniteSets, TLC

\* ------------------------------------------------------------------------
\* Bounds of the model
\* ------------------------------------------------------------------------
\* Largest batch handed to one Process call
MaxBatch == 3
\* Frames handed to the coordinator before no further Process call is made
MaxFrames == 2
\* Desyncs (Reset) before no further Process call is made
MaxDesync == 1
\* Largest nb_desired_threads and hardware_concurrency tried at construction
MaxThreads == 3
\* Most blocks one call of the null search examines
MaxBlocks == 3
\* Longest sample sequence fed in one piece and in two
MaxSeq == 4
\* Fixed-point resolution: units per FFT bin
FreqQ == 200
\* Longest X-PAD buffer handed to one ProcessXPAD call
MaxPadBytes == 6
\* Largest length field of a label segment (length + 1 data bytes) and
\* largest command code
MaxLength == 1
\* Largest field2 of a data group header (segment number or character set)
MaxField2 == 0

\* ------------------------------------------------------------------------
\* OFDM_Params (scaled-down transmission mode)
\* ------------------------------------------------------------------------
nb_fft == 4
nb_cyclic_prefix == 1
nb_symbol_period == nb_fft + nb_cyclic_prefix
nb_null_period == 6
nb_frame_symbols == 3
nb_data_carriers == 2
nb_syms == nb_frame_symbols + 1

\* Runtime configuration (OFDM_Demod_Config) with block size K of the L1
\* power estimator; ratios are <<numerator, denominator>>
Config(K) ==
    [ signal_l1_nb_samples       |-> K,
      max_coarse_freq_correction |-> <<1, 2>>,
      coarse_freq_slow_beta      |-> <<1, 10>>,
      fine_freq_update_beta      |-> <<9, 10>>,
      impulse_peak_threshold_db  |-> 10,
      impulse_peak_distance_probability |-> <<1, 2>> ]

\* Cyclic phase errors are multiples of 2*pi/PhaseTurn
PhaseTurn == 2 * nb_fft
\* Phase error (in those units) a received frame shows on each of its symbols
PhaseErrs == {-1, 1}

\* ------------------------------------------------------------------------
\* Arithmetic helpers
\* ------------------------------------------------------------------------
Min(a, b) == IF a < b THEN a ELSE b

Abs(a) == IF a < 0 THEN -a ELSE a

\* float -> int conversion and float division rounded toward zero
TruncDiv(a, b) == IF a >= 0 THEN a \div b ELSE -((-a) \div b)

\* Variant: the sum is stored without the wrap
FModNone(x, w) == x

\* std::fmod: the remainder has the sign of x and magnitude below w
FMod(x, w) == IF x >= 0 THEN x % w ELSE -((-x) % w)

\* Quotient plus one, which is the ceiling only when b does not divide a
CeilDivPlus(a, b) == a \div b + 1

\* std::ceil((float)a / (float)b) for a >= 0, b > 0
CeilDiv(a, b) == (a + b - 1) \div b

\* ------------------------------------------------------------------------
\* Construction: OFDM_Demod::CreateThreads
\* ------------------------------------------------------------------------
\* One thread taken off the hardware count before the cap, none after it
NbThreadsCapped(nb_desired_threads, total_system_threads) ==
    Min(nb_syms, IF nb_desired_threads > 0 THEN nb_desired_threads
                 ELSE total_system_threads - 1)

NbThreads(nb_desired_threads, total_system_threads) ==
    IF nb_desired_threads > 0
    THEN Min(nb_syms, nb_desired_threads)
    ELSE LET n == Min(nb_syms, total_system_threads)
         IN  IF n > 1 THEN n - 1 ELSE n

RECURSIVE MakePipelines(_, _, _)
MakePipelines(i, symbol_start, nb_threads) ==
    IF i >= nb_threads THEN << >>
    ELSE LET is_last_thread    == (i = nb_threads - 1)
             nb_syms_remain    == nb_syms - symbol_start
             nb_threads_remain == nb_threads - i
             nb_syms_in_thread == CeilDiv(nb_syms_remain, nb_threads_remain)
             symbol_end        == IF is_last_thread THEN nb_syms
                                  ELSE symbol_start + nb_syms_in_thread
         IN  << [symbol_start |-> symbol_start, symbol_end |-> symbol_end] >>
             \o MakePipelines(i + 1, symbol_end, nb_threads)

CreateThreads(nb_desired_threads, total_system_threads) ==
    MakePipelines(0, 0, NbThreads(nb_desired_threads, total_system_threads))

\* ------------------------------------------------------------------------
\* PAD dynamic label decoder: PAD_Dynamic_Label (pad_dynamic_label.cpp)
\* ------------------------------------------------------------------------
TOTAL_CRC16_BYTES == 2

TOTAL_HEADER_BYTES == 2

MIN_DATA_GROUP_BYTES == TOTAL_CRC16_BYTES + TOTAL_HEADER_BYTES

\* The two header bytes of a data group, by field: buf[0] holds the toggle
\* flag, the first/last flags, the control flag and a 4-bit length or
\* command code; the high nibble of buf[1] is field2
\* first_last_flag as fed here: an intermediate segment and a label of one
\* segment
FirstLastFlags == {0, 3}

HeaderBytes ==
    [ toggle_flag     : {0, 1},
      first_last_flag : FirstLastFlags,
      control_flag    : {0, 1},
      length          : 0 .. MaxLength,
      field2          : 0 .. MaxField2 ]

NoHeader ==
    [ toggle_flag |-> 0, first_last_flag |-> 0, control_flag |-> 0,
      length |-> 0, field2 |-> 0 ]

\* PAD_Data_Group: bytes held, bytes required, and the header bytes once
\* they are held
DataGroupReset(dg) == [dg EXCEPT !.nb_curr_bytes = 0, !.data = NoHeader]

DataGroupSetRequiredBytes(dg, n) == [dg EXCEPT !.nb_required_bytes = n]

\* Consume takes what the group still lacks and no more than is offered
DataGroupNbConsumed(dg, n) ==
    IF dg.nb_required_bytes - dg.nb_curr_bytes < n
    THEN (IF dg.nb_required_bytes > dg.nb_curr_bytes
          THEN dg.nb_required_bytes - dg.nb_curr_bytes ELSE 0)
    ELSE n

DataGroupConsume(dg, n) ==
    [dg EXCEPT !.nb_curr_bytes = @ + DataGroupNbConsumed(dg, n)]

DataGroupIsComplete(dg) == dg.nb_curr_bytes >= dg.nb_required_bytes

\* PAD_Dynamic_Label_Assembler: the segments received since the last Reset
AssemblerInit == [segments |-> {}]

AssemblerReset(a) == AssemblerInit

\* The announced segment count and the character set do not take part in
\* what is checked here
AssemblerSetTotalSegments(a, n) == a

AssemblerSetCharSet(a, c) == a

AssemblerUpdateSegment(a, seg_num) ==
    [a EXCEPT !.segments = @ \cup {seg_num}]

\* The decoder after construction, no ProcessXPAD call under way
PadInit ==
    [ state                |-> "WAIT_START",
      group_type           |-> "LABEL_SEGMENT",
      previous_toggle_flag |-> 0,
      data_group           |-> [ nb_curr_bytes     |-> 0,
                                 nb_required_bytes |-> MIN_DATA_GROUP_BYTES,
                                 data              |-> NoHeader ],
      assembler            |-> AssemblerInit,
      \* ProcessXPAD: position and locals
      xpc                  |-> "idle",
      N                    |-> 0,
      curr_byte            |-> 0,
      curr_is_start        |-> FALSE,
      nb_read              |-> 0,
      \* history: what the last ConsumeBuffer call did, whether it called
      \* ReadGroupHeader, and the toggle flag and assembler when the current
      \* data group started
      outcome              |-> "none",
      header_read          |-> FALSE,
      group_start          |-> [ previous_toggle_flag |-> 0,
                                 assembler            |-> AssemblerInit ] ]

\* ReadGroupHeader with the toggle flag managed for command groups as it is
\* for label segments
ReadGroupHeaderToggleCommands(p, hdr) ==
    LET q == [p EXCEPT !.data_group.data = hdr]
        r == IF hdr.control_flag = 1
             THEN [q EXCEPT
                    !.data_group = DataGroupSetRequiredBytes(@,
                        TOTAL_HEADER_BYTES + TOTAL_CRC16_BYTES),
                    !.group_type = "COMMAND"]
             ELSE [q EXCEPT
                    !.data_group = DataGroupSetRequiredBytes(@,
                        TOTAL_HEADER_BYTES + TOTAL_CRC16_BYTES
                            + hdr.length + 1),
                    !.group_type = "LABEL_SEGMENT"]
    IN  IF hdr.toggle_flag # p.previous_toggle_flag
        THEN [r EXCEPT !.previous_toggle_flag = hdr.toggle_flag,
                       !.assembler = AssemblerReset(@)]
        ELSE r

\* PAD_Dynamic_Label::ReadGroupHeader on header bytes hdr
ReadGroupHeader(p, hdr) ==
    LET q == [p EXCEPT !.data_group.data = hdr]
    IN  IF hdr.control_flag = 1
        THEN [q EXCEPT
                !.data_group = DataGroupSetRequiredBytes(@,
                    TOTAL_HEADER_BYTES + TOTAL_CRC16_BYTES),
                !.group_type = "COMMAND"]
        ELSE LET r == [q EXCEPT
                        !.data_group = DataGroupSetRequiredBytes(@,
                            TOTAL_HEADER_BYTES + TOTAL_CRC16_BYTES
                                + hdr.length + 1),
                        !.group_type = "LABEL_SEGMENT"]
             IN  IF hdr.toggle_flag # p.previous_toggle_flag
                 THEN [r EXCEPT !.previous_toggle_flag = hdr.toggle_flag,
                                !.assembler = AssemblerReset(@)]
                 ELSE r

\* PAD_Dynamic_Label::InterpretLabelSegment; is_changed is what
\* UpdateSegment returns for the data bytes
InterpretLabelSegment(p, is_changed) ==
    LET hdr      == p.data_group.data
        is_first == (hdr.first_last_flag \div 2) % 2 # 0
        is_last  == hdr.first_last_flag % 2 # 0
        seg_num  == IF is_first THEN 0 ELSE hdr.field2 % 8
        a1       == IF is_last
                    THEN AssemblerSetTotalSegments(p.assembler, seg_num + 1)
                    ELSE p.assembler
        a2       == IF is_first THEN AssemblerSetCharSet(a1, hdr.field2)
                    ELSE a1
        a3       == AssemblerUpdateSegment(a2, seg_num)
    IN  [p EXCEPT !.assembler = a3,
                  !.outcome = IF is_changed THEN "label_change"
                              ELSE "label_same"]

\* PAD_Dynamic_Label::InterpretCommand
InterpretCommand(p) ==
    LET command == p.data_group.data.length
    IN  [p EXCEPT !.outcome = IF command = 0 THEN "command_clear"
                              ELSE "command_other"]

\* The decoder leaves a finished data group
FinishDataGroup(p) ==
    [p EXCEPT !.state = "WAIT_START",
              !.data_group = DataGroupSetRequiredBytes(DataGroupReset(@),
                                MIN_DATA_GROUP_BYTES)]

\* ConsumeBuffer that reads nothing while it waits for a start
ConsumeBufferWaitReadsNothing(p, is_start, N, hdr, crc_ok, is_changed) ==
    [pad |-> [p EXCEPT !.outcome = "discard", !.header_read = FALSE],
     nb_read |-> 0]

\* PAD_Dynamic_Label::ConsumeBuffer on N bytes: the decoder afterwards and
\* the count returned.  hdr are the header bytes if this call completes the
\* header, crc_ok what CheckCRC returns if it completes the group
ConsumeBuffer(p, is_start, N, hdr, crc_ok, is_changed) ==
    IF p.state = "WAIT_START" /\ ~is_start
    THEN [pad |-> [p EXCEPT !.outcome = "discard", !.header_read = FALSE],
          nb_read |-> N]
    ELSE
    LET p1 == IF is_start
              THEN [p EXCEPT
                     !.data_group = DataGroupSetRequiredBytes(
                                       DataGroupReset(@),
                                       MIN_DATA_GROUP_BYTES),
                     !.state = "READ_LENGTH",
                     !.header_read = FALSE,
                     !.group_start =
                         [ previous_toggle_flag |-> p.previous_toggle_flag,
                           assembler            |-> p.assembler ]]
              ELSE [p EXCEPT !.header_read = FALSE]
        nb_remain_header_bytes ==
            TOTAL_HEADER_BYTES - p1.data_group.nb_curr_bytes
        M  == IF nb_remain_header_bytes < N THEN nb_remain_header_bytes
              ELSE N
        k1 == IF p1.state = "READ_LENGTH" /\ nb_remain_header_bytes > 0
              THEN DataGroupNbConsumed(p1.data_group, M) ELSE 0
        p2 == IF p1.state = "READ_LENGTH"
              THEN LET q == IF nb_remain_header_bytes > 0
                            THEN [p1 EXCEPT !.data_group =
                                               DataGroupConsume(@, M)]
                            ELSE p1
                   IN  IF q.data_group.nb_curr_bytes >= TOTAL_HEADER_BYTES
                       THEN [ReadGroupHeader(q, hdr) EXCEPT
                                !.state = "READ_DATA",
                                !.header_read = TRUE]
                       ELSE q
              ELSE p1
    IN  IF p2.state # "READ_DATA"
        THEN [pad |-> [p2 EXCEPT !.outcome = "partial"], nb_read |-> k1]
        ELSE
        LET k2 == DataGroupNbConsumed(p2.data_group, N - k1)
            p3 == [p2 EXCEPT !.data_group = DataGroupConsume(@, N - k1)]
        IN  IF ~DataGroupIsComplete(p3.data_group)
            THEN [pad |-> [p3 EXCEPT !.outcome = "partial"],
                  nb_read |-> k1 + k2]
            ELSE IF ~crc_ok
            THEN [pad |-> FinishDataGroup(
                             [p3 EXCEPT !.outcome = "crc_mismatch"]),
                  nb_read |-> k1 + k2]
            ELSE [pad |-> FinishDataGroup(
                             IF p3.group_type = "LABEL_SEGMENT"
                             THEN InterpretLabelSegment(p3, is_changed)
                             ELSE InterpretCommand(p3)),
                  nb_read |-> k1 + k2]

\* ------------------------------------------------------------------------
\* State
\* ------------------------------------------------------------------------
VARIABLES
    \* construction
    cfg,                      \* runtime configuration
    ctor,                     \* nb_desired_threads and hardware_concurrency()
    pad,                      \* the PAD dynamic label decoder and its caller
    pipelines,                \* symbol range of every pipeline worker
    \* ingest (the thread calling Process)
    state,                    \* OFDM_Demod::State
    ipc,                      \* position of the caller inside Process
    buf_N, curr_index,        \* size of the current batch and the running index
    zero_reads,               \* handlers in a row that returned 0 in this call
    signal_l1_average,        \* "zero" or "positive"
    is_null_start_found, is_null_end_found,
    null_power_dip_buffer,    \* length of the circular buffer
    correlation_time_buffer,  \* length of the linear buffer
    inactive_buffer,          \* fill index of the inactive frame buffer
    is_found_coarse_freq_offset,
    freq_coarse_offset, freq_fine_offset, fine_time_offset,
    total_frames_desync, total_frames_read,
    i_local,                  \* locals of the caller: delta, nb_read
    mutex_freq_fine_offset,   \* "free", "ingest" or "coordinator"
    \* double buffer
    active_buffer_data, inactive_buffer_data,
    buffer_data,              \* per storage block: frame held, PLL-corrected symbols
    \* pipeline results
    pipeline_fft_buffer, pipeline_out_bits,
    \* coordinator
    coordinator,              \* barrier flags of OFDM_Demod_Coordinator
    cpc, ci,                  \* position of the coordinator thread, loop index
    c_local,                  \* locals of CoordinatorThread
    cycle,                    \* coordinator cycles begun
    \* pipeline workers
    pipeline,                 \* per worker: barrier flags, average_phase_error
    wpc,                      \* position of every pipeline thread
    w_local,                  \* per worker: local frequency_offset snapshot
    \* destructor
    dpc, di,
    \* history of barrier events
    events

ingestVars ==
    << state, ipc, buf_N, curr_index, zero_reads, signal_l1_average,
       is_null_start_found, is_null_end_found, null_power_dip_buffer,
       correlation_time_buffer, inactive_buffer, fine_time_offset,
       total_frames_desync, i_local >>

freqVars ==
    << is_found_coarse_freq_offset, freq_coarse_offset, freq_fine_offset,
       mutex_freq_fine_offset >>

bufferVars == << active_buffer_data, inactive_buffer_data, buffer_data >>

resultVars == << pipeline_fft_buffer, pipeline_out_bits >>

coordVars == << coordinator, cpc, ci, c_local, cycle, total_frames_read >>

workerVars == << pipeline, wpc, w_local >>

dtorVars == << dpc, di >>

vars ==
    << cfg, ctor, pad, pipelines, ingestVars, freqVars, bufferVars, resultVars, coordVars,
       workerVars, dtorVars, events >>

Workers == 1 .. Len(pipelines)

Symbols == 0 .. nb_frame_symbols

\* Number of soft bits of one output symbol and of the whole output
nb_viterbi_bits == nb_data_carriers * 2

OutLen == (nb_frame_symbols - 1) * nb_data_carriers * 2

\* Capacities of the buffers (allocation in the constructor)
NullCapacity == nb_null_period

CorrelationCapacity == nb_null_period + nb_symbol_period

FrameCapacity == nb_frame_symbols * nb_symbol_period + nb_null_period

NoData == [frame |-> 0, phase |-> 0, pll |-> {}]

\* Locals of a worker between two frames: the frequency_offset snapshot and
\* the two FFT results fft_buf_0 and fft_buf_1 read for the last DQPSK symbol
NoLocals == [coarse |-> 0, fine |-> 0, loaded |-> FALSE, fft_buf_0 |-> 0, fft_buf_1 |-> 0]

InitPipeline ==
    [ is_start |-> FALSE, is_phase_error_done |-> FALSE, is_fft_done |-> FALSE,
      is_end |-> FALSE, is_terminated |-> FALSE, average_phase_error |-> 0 ]

InitCoordinator == [is_start |-> FALSE, is_end |-> TRUE, is_terminated |-> FALSE]

NoEvents ==
    [ ingest_start |-> 0, coord_end |-> 0, notify |-> 0, fine_update |-> 0,
      wait_end |-> 0 ]

\* The state after construction with a configuration whose block size is K,
\* for nb_desired_threads in Desired and hardware_concurrency in Hardware
Constructed(K, Desired, Hardware) ==
    /\ cfg = Config(K)
    /\ \E d \in Desired, hc \in Hardware :
            /\ ctor = [nb_desired_threads |-> d, total_system_threads |-> hc]
            /\ pipelines = CreateThreads(d, hc)

\* Initial state of the demodulator, its buffers and its threads
Started ==
    /\ pad = PadInit
    /\ state = "FINDING_NULL_POWER_DIP"
    /\ ipc = "idle"
    /\ buf_N = 0
    /\ curr_index = 0
    /\ zero_reads = 0
    /\ signal_l1_average = "zero"
    /\ is_null_start_found = FALSE
    /\ is_null_end_found = FALSE
    /\ null_power_dip_buffer = 0
    /\ correlation_time_buffer = 0
    /\ inactive_buffer = 0
    /\ is_found_coarse_freq_offset = FALSE
    /\ freq_coarse_offset = 0
    /\ freq_fine_offset = 0
    /\ fine_time_offset = 0
    /\ total_frames_desync = 0
    /\ total_frames_read = 0
    /\ i_local = [delta |-> 0, nb_read |-> 0]
    /\ mutex_freq_fine_offset = "free"
    /\ active_buffer_data = 0
    /\ inactive_buffer_data = 1
    /\ buffer_data = [b \in {0, 1} |-> NoData]
    /\ pipeline_fft_buffer = [s \in Symbols |-> 0]
    /\ pipeline_out_bits = [k \in 0 .. OutLen - 1 |->
                               [cycle |-> 0, by |-> 0, f0 |-> 0, f1 |-> 0]]
    /\ coordinator = InitCoordinator
    /\ cpc = "wait_start"
    /\ ci = 0
    /\ c_local = 0
    /\ cycle = 0
    /\ pipeline = [w \in Workers |-> InitPipeline]
    /\ wpc = [w \in Workers |-> "wait_start"]
    /\ w_local = [w \in Workers |-> NoLocals]
    /\ dpc = "none"
    /\ di = 0
    /\ events = [ global |-> NoEvents,
                  worker |-> [w \in Workers |->
                      [start |-> 0, phase_error |-> 0, fft |-> 0, end |-> 0]] ]

\* ------------------------------------------------------------------------
\* Barrier primitives (OFDM_Demod_Coordinator, OFDM_Demod_Pipeline): a flag
\* set by Signal and cleared by the Wait that it releases; Stop is sticky
\* and releases every wait
\* ------------------------------------------------------------------------
BarrierOpen(b, flag) == b[flag] \/ b.is_terminated

BarrierSignal(b, flag) == [b EXCEPT ![flag] = TRUE]

BarrierTake(b, flag) == [b EXCEPT ![flag] = FALSE]

BarrierStop(b) == [b EXCEPT !.is_terminated = TRUE, !.is_start = TRUE]

\* ------------------------------------------------------------------------
\* Buffer primitives
\* ------------------------------------------------------------------------
\* Linear buffer ConsumeBuffer: samples taken from a batch of n
LinearRead(len, capacity, n) == Min(n, capacity - len)

\* Circular buffer ConsumeBuffer(buf, true): new length
CircularConsume(len, capacity, n) == Min(capacity, len + n)

BumpGlobal(name) == [events EXCEPT !.global[name] = @ + 1]

BumpWorker(w, name) == [events EXCEPT !.worker[w][name] = @ + 1]

\* ------------------------------------------------------------------------
\* Ingest: OFDM_Demod::Process and the per-state handlers
\* ------------------------------------------------------------------------
N_remain == buf_N - curr_index

InLoop(s) == ipc = "run" /\ curr_index < buf_N /\ state = s

\* Variant: the loop of Process advances one sample too far
ReturnOneMore(nb_read) ==
    /\ curr_index' = curr_index + nb_read + 1
    /\ zero_reads' = 0

\* A handler returned nb_read to the loop of Process
Return(nb_read) ==
    /\ curr_index' = curr_index + nb_read
    /\ zero_reads' = IF nb_read = 0 THEN zero_reads + 1 ELSE 0

\* UpdateSignalAverage: the average stays zero only while it is zero and
\* the blocks averaged are silent; batches of at most K samples change nothing
UpdateSignalAverage(N, loud) ==
    LET K == cfg.signal_l1_nb_samples
    IN  IF N < K \/ N - K <= 0 THEN signal_l1_average
        ELSE IF loud THEN "positive" ELSE signal_l1_average

Process(N, loud) ==
    /\ ipc = "idle"
    /\ dpc = "none"
    /\ events.global.ingest_start < MaxFrames
    /\ signal_l1_average' = UpdateSignalAverage(N, loud)
    /\ buf_N' = N
    /\ curr_index' = 0
    /\ zero_reads' = 0
    /\ ipc' = "run"
    /\ UNCHANGED << state, is_null_start_found, is_null_end_found,
                    null_power_dip_buffer, correlation_time_buffer,
                    inactive_buffer, fine_time_offset, total_frames_desync,
                    i_local >>
    /\ UNCHANGED << cfg, ctor, pad, pipelines, freqVars, bufferVars, resultVars, coordVars,
                    workerVars, dtorVars, events >>

ProcessReturn ==
    /\ ipc = "run"
    /\ ~(curr_index < buf_N)
    /\ ipc' = "idle"
    /\ UNCHANGED << state, buf_N, curr_index, zero_reads, signal_l1_average,
                    is_null_start_found, is_null_end_found,
                    null_power_dip_buffer, correlation_time_buffer,
                    inactive_buffer, fine_time_offset, total_frames_desync,
                    i_local >>
    /\ UNCHANGED << cfg, ctor, pad, pipelines, freqVars, bufferVars, resultVars, coordVars,
                    workerVars, dtorVars, events >>

\* Variant: every block the batch holds, the last and partial one too
NbBlocksPartial(N) == CeilDiv(N, cfg.signal_l1_nb_samples)

\* Blocks of K samples examined by the loop "for (i = 0; i < N-K; i += K)"
NbBlocks(N) ==
    LET K == cfg.signal_l1_nb_samples
    IN  IF N - K <= 0 THEN 0 ELSE CeilDiv(N - K, K)

\* Outcome of comparing a block's L1 average with the two thresholds:
\* "low" is below null_start_thresh, "high" is above null_end_thresh
BlockClasses ==
    IF signal_l1_average = "zero" THEN {"mid", "high"} ELSE {"low", "mid", "high"}

\* Variant: a block above the null end threshold ends the search whether
\* or not a null start has been found
RECURSIVE NullScanNoStart(_, _, _, _)
NullScanNoStart(cls, b, start_found, N) ==
    LET K == cfg.signal_l1_nb_samples
        i == (b - 1) * K
    IN  IF b > Len(cls)
        THEN [start |-> start_found, end |-> FALSE, nb_read |-> N]
        ELSE IF cls[b] = "high"
             THEN [start |-> TRUE, end |-> TRUE, nb_read |-> i + K]
             ELSE NullScanNoStart(cls, b + 1, start_found \/ cls[b] = "low", N)

\* Variant: a search that ends with the batch forgets the null start
RECURSIVE NullScanForgetful(_, _, _, _)
NullScanForgetful(cls, b, start_found, N) ==
    LET K == cfg.signal_l1_nb_samples
        i == (b - 1) * K
    IN  IF b > Len(cls)
        THEN [start |-> FALSE, end |-> FALSE, nb_read |-> N]
        ELSE IF start_found
             THEN IF cls[b] = "high"
                  THEN [start |-> TRUE, end |-> TRUE, nb_read |-> i + K]
                  ELSE NullScanForgetful(cls, b + 1, start_found, N)
             ELSE NullScanForgetful(cls, b + 1, cls[b] = "low", N)

RECURSIVE NullScan(_, _, _, _)
NullScan(cls, b, start_found, N) ==
    LET K == cfg.signal_l1_nb_samples
        i == (b - 1) * K
    IN  IF b > Len(cls)
        THEN [start |-> start_found, end |-> FALSE, nb_read |-> N]
        ELSE IF start_found
             THEN IF cls[b] = "high"
                  THEN [start |-> TRUE, end |-> TRUE, nb_read |-> i + K]
                  ELSE NullScan(cls, b + 1, start_found, N)
             ELSE NullScan(cls, b + 1, cls[b] = "low", N)

FindNullPowerDip(cls) ==
    /\ InLoop("FINDING_NULL_POWER_DIP")
    /\ LET r == NullScan(cls, 1, is_null_start_found, N_remain)
           L == CircularConsume(null_power_dip_buffer, NullCapacity, r.nb_read)
       IN  /\ IF ~r.end
              THEN /\ is_null_start_found' = r.start
                   /\ null_power_dip_buffer' = L
                   /\ UNCHANGED << correlation_time_buffer, state >>
              ELSE /\ is_null_start_found' = FALSE
                   /\ correlation_time_buffer' = L
                   /\ null_power_dip_buffer' = 0
                   /\ state' = "READING_NULL_AND_PRS"
           /\ is_null_end_found' = FALSE
           /\ Return(r.nb_read)
    /\ UNCHANGED << ipc, buf_N, signal_l1_average, inactive_buffer,
                    fine_time_offset, total_frames_desync, i_local >>
    /\ UNCHANGED << cfg, ctor, pad, pipelines, freqVars, bufferVars, resultVars, coordVars,
                    workerVars, dtorVars, events >>

\* A batch given sample by sample: a sample is silent or it is loud, with an
\* amplitude such that a block of loud samples is above null_end_thresh and
\* a block that mixes both kinds is between the two thresholds
SampleKinds == {"quiet", "loud"}

\* Outcome of the threshold comparisons for the block of K samples that
\* starts at index i of the batch, when signal_l1_average is positive
BlockClass(samples, i) ==
    LET K     == cfg.signal_l1_nb_samples
        kinds == { samples[j] : j \in i + 1 .. i + K }
    IN  IF kinds = {"quiet"} THEN "low"
        ELSE IF kinds = {"loud"} THEN "high"
        ELSE "mid"

\* The blocks the loop of FindNullPowerDip examines in a batch, in order
ClassesOf(samples) ==
    [b \in 1 .. NbBlocks(Len(samples)) |->
        BlockClass(samples, (b - 1) * cfg.signal_l1_nb_samples)]

\* One Process call on a batch given sample by sample, from the null search
\* or from READING_NULL_AND_PRS, for batches that end before the correlation
\* buffer is full: the FSM state, the null-start flag and the fill levels of
\* the null and correlation buffers when the call returns
ProcessFrom(s, samples) ==
    LET N == Len(samples)
    IN  IF s.state = "FINDING_NULL_POWER_DIP"
        THEN LET r == NullScan(ClassesOf(samples), 1, s.is_null_start_found, N)
                 L == CircularConsume(s.null_power_dip_buffer, NullCapacity, r.nb_read)
             IN  IF ~r.end
                 THEN [s EXCEPT !.is_null_start_found = r.start,
                                !.null_power_dip_buffer = L]
                 ELSE [state                   |-> "READING_NULL_AND_PRS",
                       is_null_start_found     |-> FALSE,
                       null_power_dip_buffer   |-> 0,
                       correlation_time_buffer |->
                           L + LinearRead(L, CorrelationCapacity, N - r.nb_read)]
        ELSE [s EXCEPT !.correlation_time_buffer =
                 @ + LinearRead(@, CorrelationCapacity, N)]

\* Variant: the FSM moves on as soon as any sample has been appended
ReadNullPRSEarly ==
    /\ InLoop("READING_NULL_AND_PRS")
    /\ LET nb_read == LinearRead(correlation_time_buffer, CorrelationCapacity, N_remain)
       IN  /\ correlation_time_buffer' = correlation_time_buffer + nb_read
           /\ state' = IF nb_read > 0 THEN "RUNNING_COARSE_FREQ_SYNC" ELSE state
           /\ Return(nb_read)
    /\ UNCHANGED << ipc, buf_N, signal_l1_average, is_null_start_found,
                    is_null_end_found, null_power_dip_buffer, inactive_buffer,
                    fine_time_offset, total_frames_desync, i_local >>
    /\ UNCHANGED << cfg, ctor, pad, pipelines, freqVars, bufferVars, resultVars, coordVars,
                    workerVars, dtorVars, events >>

\* Variant: the whole rest of the batch counts as read, appended or not
ReadNullPRSDropping ==
    /\ InLoop("READING_NULL_AND_PRS")
    /\ LET nb_read == LinearRead(correlation_time_buffer, CorrelationCapacity, N_remain)
       IN  /\ correlation_time_buffer' = correlation_time_buffer + nb_read
           /\ state' = IF correlation_time_buffer + nb_read = CorrelationCapacity
                       THEN "RUNNING_COARSE_FREQ_SYNC" ELSE state
           /\ Return(N_remain)
    /\ UNCHANGED << ipc, buf_N, signal_l1_average, is_null_start_found,
                    is_null_end_found, null_power_dip_buffer, inactive_buffer,
                    fine_time_offset, total_frames_desync, i_local >>
    /\ UNCHANGED << cfg, ctor, pad, pipelines, freqVars, bufferVars, resultVars, coordVars,
                    workerVars, dtorVars, events >>

ReadNullPRS ==
    /\ InLoop("READING_NULL_AND_PRS")
    /\ LET nb_read == LinearRead(correlation_time_buffer, CorrelationCapacity, N_remain)
       IN  /\ correlation_time_buffer' = correlation_time_buffer + nb_read
           /\ state' = IF correlation_time_buffer + nb_read = CorrelationCapacity
                       THEN "RUNNING_COARSE_FREQ_SYNC" ELSE state
           /\ Return(nb_read)
    /\ UNCHANGED << ipc, buf_N, signal_l1_average, is_null_start_found,
                    is_null_end_found, null_power_dip_buffer, inactive_buffer,
                    fine_time_offset, total_frames_desync, i_local >>
    /\ UNCHANGED << cfg, ctor, pad, pipelines, freqVars, bufferVars, resultVars, coordVars,
                    workerVars, dtorVars, events >>

\* Offsets the peak search of RunCoarseFreqSync can return
\* Variant: the configured window is used as it is
CarrierOffsetUnclamped(ratio) == TruncDiv(ratio[1] * nb_fft, ratio[2])

\* max_carrier_offset for a configured max_coarse_freq_correction_norm
CarrierOffsetFor(ratio) ==
    LET raw == TruncDiv(ratio[1] * nb_fft, ratio[2])
        M   == nb_fft \div 2
    IN  IF raw < 0 THEN 0 ELSE IF raw > M THEN M ELSE raw

max_carrier_offset == CarrierOffsetFor(cfg.max_coarse_freq_correction)

\* Indices of correlation_frequency_response the peak search reads for a
\* configured window: the initial max_value and the loop
SearchIndices(ratio) ==
    LET mco == CarrierOffsetFor(ratio)
        M   == nb_fft \div 2
    IN  {M - mco} \cup { i + M : i \in { j \in -mco .. mco : j + M # nb_fft } }

PeakOffsets ==
    { i \in -max_carrier_offset .. max_carrier_offset : i + (nb_fft \div 2) # nb_fft }

large_offset_threshold == (3 * FreqQ) \div 2

\* is_fast_update of the coarse estimate whose peak is at max_index
IsFastUpdate(max_index) ==
    \/ Abs((-max_index) * FreqQ - freq_coarse_offset) > large_offset_threshold
    \/ ~is_found_coarse_freq_offset

\* Variant: the update with beta = 1 whatever the error is
CoarseDeltaFast(max_index) == (-max_index) * FreqQ - freq_coarse_offset

\* The update with beta = coarse_freq_slow_beta whatever the error is
CoarseDeltaSlow(max_index) ==
    TruncDiv(cfg.coarse_freq_slow_beta[1] * ((-max_index) * FreqQ - freq_coarse_offset),
             cfg.coarse_freq_slow_beta[2])

CoarseDelta(max_index) ==
    LET predicted_freq_coarse_offset == (-max_index) * FreqQ
        error               == predicted_freq_coarse_offset - freq_coarse_offset
        is_large_correction == Abs(error) > large_offset_threshold
        is_fast_update      == is_large_correction \/ ~is_found_coarse_freq_offset
    IN  IF is_fast_update THEN error
        ELSE TruncDiv(cfg.coarse_freq_slow_beta[1] * error, cfg.coarse_freq_slow_beta[2])

\* Variant: skipping the coarse sync also forgets the estimate and the fine
\* offset
RunCoarseFreqSyncOffClearing ==
    /\ InLoop("RUNNING_COARSE_FREQ_SYNC")
    /\ freq_coarse_offset' = 0
    /\ is_found_coarse_freq_offset' = FALSE
    /\ freq_fine_offset' = 0
    /\ state' = "RUNNING_FINE_TIME_SYNC"
    /\ Return(0)
    /\ UNCHANGED << ipc, buf_N, signal_l1_average, is_null_start_found,
                    is_null_end_found, null_power_dip_buffer,
                    correlation_time_buffer, inactive_buffer,
                    fine_time_offset, total_frames_desync, i_local >>
    /\ UNCHANGED << mutex_freq_fine_offset >>
    /\ UNCHANGED << cfg, ctor, pad, pipelines, bufferVars, resultVars, coordVars, workerVars,
                    dtorVars, events >>

\* cfg.sync.is_coarse_freq_correction is false
RunCoarseFreqSyncOff ==
    /\ InLoop("RUNNING_COARSE_FREQ_SYNC")
    /\ freq_coarse_offset' = 0
    /\ state' = "RUNNING_FINE_TIME_SYNC"
    /\ Return(0)
    /\ UNCHANGED << ipc, buf_N, signal_l1_average, is_null_start_found,
                    is_null_end_found, null_power_dip_buffer,
                    correlation_time_buffer, inactive_buffer,
                    fine_time_offset, total_frames_desync, i_local >>
    /\ UNCHANGED << is_found_coarse_freq_offset, freq_fine_offset,
                    mutex_freq_fine_offset >>
    /\ UNCHANGED << cfg, ctor, pad, pipelines, bufferVars, resultVars, coordVars, workerVars,
                    dtorVars, events >>

\* Steps 1 to 10, up to the call of UpdateFineFrequencyOffset(-delta)
RunCoarseFreqSync(max_index) ==
    /\ InLoop("RUNNING_COARSE_FREQ_SYNC")
    /\ LET delta == CoarseDelta(max_index)
       IN  /\ freq_coarse_offset' = freq_coarse_offset + delta
           /\ i_local' = [i_local EXCEPT !.delta = -delta]
    /\ is_found_coarse_freq_offset' = TRUE
    /\ ipc' = "fine_lock"
    /\ UNCHANGED << state, buf_N, curr_index, zero_reads, signal_l1_average,
                    is_null_start_found, is_null_end_found,
                    null_power_dip_buffer, correlation_time_buffer,
                    inactive_buffer, fine_time_offset, total_frames_desync >>
    /\ UNCHANGED << freq_fine_offset, mutex_freq_fine_offset >>
    /\ UNCHANGED << cfg, ctor, pad, pipelines, bufferVars, resultVars, coordVars, workerVars,
                    dtorVars, events >>

fft_bin_wrap == (FreqQ * 101) \div 200

\* UpdateFineFrequencyOffset on the ingest thread: scoped_lock and "+= delta"
IngestFineLock ==
    /\ ipc = "fine_lock"
    /\ mutex_freq_fine_offset = "free"
    /\ mutex_freq_fine_offset' = "ingest"
    /\ freq_fine_offset' = freq_fine_offset + i_local.delta
    /\ ipc' = "fine_fmod"
    /\ UNCHANGED << is_found_coarse_freq_offset, freq_coarse_offset >>
    /\ UNCHANGED << state, buf_N, curr_index, zero_reads, signal_l1_average,
                    is_null_start_found, is_null_end_found,
                    null_power_dip_buffer, correlation_time_buffer,
                    inactive_buffer, fine_time_offset, total_frames_desync,
                    i_local >>
    /\ UNCHANGED << cfg, ctor, pad, pipelines, bufferVars, resultVars, coordVars, workerVars,
                    dtorVars, events >>

\* ... the fmod, the unlock and the end of RunCoarseFreqSync
IngestFineFmod ==
    /\ ipc = "fine_fmod"
    /\ freq_fine_offset' = FMod(freq_fine_offset, fft_bin_wrap)
    /\ mutex_freq_fine_offset' = "free"
    /\ state' = "RUNNING_FINE_TIME_SYNC"
    /\ ipc' = "run"
    /\ i_local' = [i_local EXCEPT !.delta = 0]
    /\ Return(0)
    /\ UNCHANGED << is_found_coarse_freq_offset, freq_coarse_offset >>
    /\ UNCHANGED << buf_N, signal_l1_average, is_null_start_found,
                    is_null_end_found, null_power_dip_buffer,
                    correlation_time_buffer, inactive_buffer,
                    fine_time_offset, total_frames_desync >>
    /\ UNCHANGED << cfg, ctor, pad, pipelines, bufferVars, resultVars, coordVars, workerVars,
                    dtorVars, events >>

\* Variant: a reset that restarts at the PRS capture instead of the null search
ResetToNullPRS ==
    /\ state' = "READING_NULL_AND_PRS"
    /\ correlation_time_buffer' = 0
    /\ total_frames_desync' = total_frames_desync + 1
    /\ is_found_coarse_freq_offset' = FALSE
    /\ freq_coarse_offset' = 0
    /\ freq_fine_offset' = 0
    /\ fine_time_offset' = 0

\* OFDM_Demod::Reset (no lock is taken)
Reset ==
    /\ state' = "FINDING_NULL_POWER_DIP"
    /\ correlation_time_buffer' = 0
    /\ total_frames_desync' = total_frames_desync + 1
    /\ is_found_coarse_freq_offset' = FALSE
    /\ freq_coarse_offset' = 0
    /\ freq_fine_offset' = 0
    /\ fine_time_offset' = 0

\* The impulse peak is too weak: Reset and return 0
RunFineTimeSyncReset ==
    /\ InLoop("RUNNING_FINE_TIME_SYNC")
    /\ total_frames_desync < MaxDesync
    /\ Reset
    /\ Return(0)
    /\ UNCHANGED << ipc, buf_N, signal_l1_average, is_null_start_found,
                    is_null_end_found, null_power_dip_buffer, inactive_buffer,
                    i_local >>
    /\ UNCHANGED << mutex_freq_fine_offset >>
    /\ UNCHANGED << cfg, ctor, pad, pipelines, bufferVars, resultVars, coordVars, workerVars,
                    dtorVars, events >>

\* The impulse peak at impulse_max_index is accepted; phase is the cyclic
\* phase error the symbols of the frame now being received will show
RunFineTimeSync(impulse_max_index, phase) ==
    /\ InLoop("RUNNING_FINE_TIME_SYNC")
    /\ LET offset     == impulse_max_index - nb_cyclic_prefix
           prs_length == nb_symbol_period - offset
       IN  /\ inactive_buffer' = LinearRead(0, FrameCapacity, prs_length)
           /\ fine_time_offset' = offset
    /\ buffer_data' = [buffer_data EXCEPT ![inactive_buffer_data] =
           [frame |-> events.global.ingest_start + 1, phase |-> phase, pll |-> {}]]
    /\ correlation_time_buffer' = 0
    /\ state' = "READING_SYMBOLS"
    /\ Return(0)
    /\ UNCHANGED << ipc, buf_N, signal_l1_average, is_null_start_found,
                    is_null_end_found, null_power_dip_buffer,
                    total_frames_desync, i_local >>
    /\ UNCHANGED << active_buffer_data, inactive_buffer_data >>
    /\ UNCHANGED << cfg, ctor, pad, pipelines, freqVars, resultVars, coordVars, workerVars,
                    dtorVars, events >>

\* Values in dB an entry of correlation_impulse_response takes
ImpulseLevels == {-10, 0, 20}

\* Contents of correlation_impulse_response after the IFFT
ImpulseResponses == [0 .. nb_fft - 1 -> ImpulseLevels]

\* "probability" of index i as the fraction ImpulseProbNum(i) / ImpulseProbDen
ImpulseProbDen == cfg.impulse_peak_distance_probability[2] * nb_symbol_period

ImpulseProbNum(i) ==
    LET p == cfg.impulse_peak_distance_probability
        distance_from_expectation == Abs(nb_cyclic_prefix - i)
    IN  p[2] * nb_symbol_period - (p[2] - p[1]) * distance_from_expectation

\* weighted_peak_value of index i, times ImpulseProbDen
WeightedPeak(impulse, i) == ImpulseProbNum(i) * impulse[i]

\* The loop over the impulse response from index i on, with
\* impulse_max_value held times ImpulseProbDen
RECURSIVE ImpulseScan(_, _, _)
ImpulseScan(impulse, i, m) ==
    IF i >= nb_fft THEN m
    ELSE IF WeightedPeak(impulse, i) > m.impulse_max_value
         THEN ImpulseScan(impulse, i + 1,
                  [impulse_max_value |-> WeightedPeak(impulse, i),
                   impulse_max_index |-> i])
         ELSE ImpulseScan(impulse, i + 1, m)

\* impulse_max_value (times ImpulseProbDen) and impulse_max_index after the
\* loop, which starts from the unweighted first entry
FindImpulsePeak(impulse) ==
    ImpulseScan(impulse, 0, [impulse_max_value |-> ImpulseProbDen * impulse[0],
                             impulse_max_index |-> 0])

RECURSIVE ImpulseSum(_, _)
ImpulseSum(impulse, i) ==
    IF i >= nb_fft THEN 0 ELSE impulse[i] + ImpulseSum(impulse, i + 1)

\* (max_value - impulse_avg) < cfg.sync.impulse_peak_threshold_db, for
\* max_value given times ImpulseProbDen
PeakTooWeak(impulse, max_value) ==
    nb_fft * max_value - ImpulseProbDen * ImpulseSum(impulse, 0)
        < cfg.impulse_peak_threshold_db * ImpulseProbDen * nb_fft

\* Variant: the trailing NULL is not copied into the correlation buffer
ReadSymbolsNoNullCopy ==
    /\ InLoop("READING_SYMBOLS")
    /\ LET nb_read == LinearRead(inactive_buffer, FrameCapacity, N_remain)
       IN  /\ inactive_buffer' = inactive_buffer + nb_read
           /\ IF inactive_buffer + nb_read # FrameCapacity
              THEN /\ Return(nb_read)
                   /\ UNCHANGED << ipc, i_local, events >>
              ELSE /\ i_local' = [i_local EXCEPT !.nb_read = nb_read]
                   /\ ipc' = "wait_end"
                   /\ events' = BumpGlobal("wait_end")
                   /\ UNCHANGED << curr_index, zero_reads >>
    /\ UNCHANGED << state, buf_N, signal_l1_average, is_null_start_found,
                    is_null_end_found, null_power_dip_buffer,
                    correlation_time_buffer, fine_time_offset,
                    total_frames_desync >>
    /\ UNCHANGED << cfg, ctor, pad, pipelines, freqVars, bufferVars, resultVars, coordVars,
                    workerVars, dtorVars >>

\* ReadSymbols up to the call of coordinator->WaitEnd()
ReadSymbols ==
    /\ InLoop("READING_SYMBOLS")
    /\ LET nb_read == LinearRead(inactive_buffer, FrameCapacity, N_remain)
       IN  /\ inactive_buffer' = inactive_buffer + nb_read
           /\ IF inactive_buffer + nb_read # FrameCapacity
              THEN /\ Return(nb_read)
                   /\ UNCHANGED << ipc, correlation_time_buffer, i_local, events >>
              ELSE /\ correlation_time_buffer' = nb_null_period
                   /\ i_local' = [i_local EXCEPT !.nb_read = nb_read]
                   /\ ipc' = "wait_end"
                   /\ events' = BumpGlobal("wait_end")
                   /\ UNCHANGED << curr_index, zero_reads >>
    /\ UNCHANGED << state, buf_N, signal_l1_average, is_null_start_found,
                    is_null_end_found, null_power_dip_buffer,
                    fine_time_offset, total_frames_desync >>
    /\ UNCHANGED << cfg, ctor, pad, pipelines, freqVars, bufferVars, resultVars, coordVars,
                    workerVars, dtorVars >>

IngestUnchanged ==
    UNCHANGED << state, buf_N, signal_l1_average, is_null_start_found,
                 is_null_end_found, null_power_dip_buffer,
                 correlation_time_buffer, fine_time_offset,
                 total_frames_desync >>

\* Variant: ReadSymbols goes on to the swap without waiting
ReadSymbolsNoWait ==
    /\ ipc = "wait_end"
    /\ ipc' = "swap"
    /\ IngestUnchanged
    /\ UNCHANGED << curr_index, zero_reads, inactive_buffer, i_local >>
    /\ UNCHANGED << cfg, ctor, pad, pipelines, freqVars, bufferVars, resultVars, coordVars,
                    workerVars, dtorVars, events >>

\* coordinator->WaitEnd() returns
ReadSymbolsWaitEnd ==
    /\ ipc = "wait_end"
    /\ BarrierOpen(coordinator, "is_end")
    /\ coordinator' = BarrierTake(coordinator, "is_end")
    /\ ipc' = "swap"
    /\ IngestUnchanged
    /\ UNCHANGED << curr_index, zero_reads, inactive_buffer, i_local >>
    /\ UNCHANGED << cpc, ci, c_local, cycle, total_frames_read >>
    /\ UNCHANGED << cfg, ctor, pad, pipelines, freqVars, bufferVars, resultVars, workerVars,
                    dtorVars, events >>

\* std::swap(inactive_buffer_data, active_buffer_data)
ReadSymbolsSwap ==
    /\ ipc = "swap"
    /\ active_buffer_data' = inactive_buffer_data
    /\ inactive_buffer_data' = active_buffer_data
    /\ ipc' = "reset"
    /\ IngestUnchanged
    /\ UNCHANGED << curr_index, zero_reads, inactive_buffer, i_local >>
    /\ UNCHANGED << buffer_data >>
    /\ UNCHANGED << cfg, ctor, pad, pipelines, freqVars, resultVars, coordVars, workerVars,
                    dtorVars, events >>

\* Variant: the inactive buffer is not reset
ReadSymbolsNoReset ==
    /\ ipc = "reset"
    /\ ipc' = "signal_start"
    /\ IngestUnchanged
    /\ UNCHANGED << curr_index, zero_reads, inactive_buffer, i_local >>
    /\ UNCHANGED << cfg, ctor, pad, pipelines, freqVars, bufferVars, resultVars, coordVars,
                    workerVars, dtorVars, events >>

\* inactive_buffer.Reset()
ReadSymbolsReset ==
    /\ ipc = "reset"
    /\ inactive_buffer' = 0
    /\ ipc' = "signal_start"
    /\ IngestUnchanged
    /\ UNCHANGED << curr_index, zero_reads, i_local >>
    /\ UNCHANGED << cfg, ctor, pad, pipelines, freqVars, bufferVars, resultVars, coordVars,
                    workerVars, dtorVars, events >>

\* coordinator->SignalStart() and the end of ReadSymbols
ReadSymbolsSignalStart ==
    /\ ipc = "signal_start"
    /\ coordinator' = BarrierSignal(coordinator, "is_start")
    /\ events' = BumpGlobal("ingest_start")
    /\ state' = "READING_NULL_AND_PRS"
    /\ Return(i_local.nb_read)
    /\ i_local' = [i_local EXCEPT !.nb_read = 0]
    /\ ipc' = "run"
    /\ UNCHANGED << buf_N, signal_l1_average, is_null_start_found,
                    is_null_end_found, null_power_dip_buffer,
                    correlation_time_buffer, inactive_buffer,
                    fine_time_offset, total_frames_desync >>
    /\ UNCHANGED << cpc, ci, c_local, cycle, total_frames_read >>
    /\ UNCHANGED << cfg, ctor, pad, pipelines, freqVars, bufferVars, resultVars, workerVars,
                    dtorVars >>

\* RunFineTimeSync on the impulse response the correlation produced
RunFineTimeSyncImpulse(impulse, phase) ==
    /\ InLoop("RUNNING_FINE_TIME_SYNC")
    /\ LET peak == FindImpulsePeak(impulse)
       IN  IF PeakTooWeak(impulse, peak.impulse_max_value)
           THEN RunFineTimeSyncReset
           ELSE RunFineTimeSync(peak.impulse_max_index, phase)

\* The caller's steps, for batch sizes in Batches, coarse peaks in Peaks,
\* impulse peaks in Impulses and frames with cyclic phase errors in Phases
Ingest(Batches, Peaks, Impulses, Phases) ==
    \/ \E N \in Batches, loud \in BOOLEAN : Process(N, loud)
    \/ ProcessReturn
    \/ \E cls \in [1 .. NbBlocks(N_remain) -> BlockClasses] : FindNullPowerDip(cls)
    \/ ReadNullPRS
    \/ RunCoarseFreqSyncOff
    \/ \E max_index \in Peaks : RunCoarseFreqSync(max_index)
    \/ IngestFineLock
    \/ IngestFineFmod
    \/ RunFineTimeSyncReset
    \/ \E i \in Impulses, phase \in Phases : RunFineTimeSync(i, phase)
    \/ ReadSymbols
    \/ ReadSymbolsWaitEnd
    \/ ReadSymbolsSwap
    \/ ReadSymbolsReset
    \/ ReadSymbolsSignalStart


\* ------------------------------------------------------------------------
\* Coordinator thread: OFDM_Demod::CoordinatorThread
\* ------------------------------------------------------------------------
NbPipelines == Len(pipelines)

\* Position after a step of a "for (auto& pipeline: pipelines)" loop at index
\* i, or after the whole loop when no pipeline is left
LoopPc(i, here, after) == IF i <= NbPipelines THEN here ELSE after

LoopIndex(i) == IF i <= NbPipelines THEN i ELSE 1

CoordinatorUnchanged ==
    UNCHANGED << cfg, ctor, pad, pipelines, ingestVars, bufferVars, resultVars, w_local, wpc,
                 dtorVars >>

\* coordinator->WaitStart() returns; if (coordinator->IsStopped()) return false;
CoordinatorWaitStart ==
    /\ cpc = "wait_start"
    /\ BarrierOpen(coordinator, "is_start")
    /\ coordinator' = BarrierTake(coordinator, "is_start")
    /\ IF coordinator.is_terminated
       THEN /\ cpc' = "exited"
            /\ UNCHANGED << ci, cycle >>
       ELSE /\ cpc' = LoopPc(1, "signal_start", "fine_lock")
            /\ ci' = 1
            /\ cycle' = cycle + 1
    /\ UNCHANGED << c_local, total_frames_read, pipeline, freqVars, events >>
    /\ CoordinatorUnchanged

\* pipeline->SignalStart() for the pipeline at index ci
CoordinatorSignalStart ==
    /\ cpc = "signal_start"
    /\ pipeline' = [pipeline EXCEPT ![ci] = BarrierSignal(@, "is_start")]
    /\ events' = BumpWorker(ci, "start")
    /\ cpc' = LoopPc(ci + 1, "signal_start", "wait_phase_error")
    /\ ci' = LoopIndex(ci + 1)
    /\ UNCHANGED << coordinator, c_local, cycle, total_frames_read, freqVars >>
    /\ CoordinatorUnchanged

\* Variant: the coordinator does not wait for the phase errors
CoordinatorSkipPhaseError ==
    /\ cpc = "wait_phase_error"
    /\ cpc' = LoopPc(ci + 1, "wait_phase_error", "fine_lock")
    /\ ci' = LoopIndex(ci + 1)
    /\ UNCHANGED << coordinator, c_local, cycle, total_frames_read, pipeline,
                    freqVars, events >>
    /\ CoordinatorUnchanged

\* pipeline->WaitPhaseError() returns for the pipeline at index ci
CoordinatorWaitPhaseError ==
    /\ cpc = "wait_phase_error"
    /\ BarrierOpen(pipeline[ci], "is_phase_error_done")
    /\ pipeline' = [pipeline EXCEPT ![ci] = BarrierTake(@, "is_phase_error_done")]
    /\ cpc' = LoopPc(ci + 1, "wait_phase_error", "fine_lock")
    /\ ci' = LoopIndex(ci + 1)
    /\ UNCHANGED << coordinator, c_local, cycle, total_frames_read, freqVars,
                    events >>
    /\ CoordinatorUnchanged

RECURSIVE SumPhaseError(_)
SumPhaseError(i) ==
    IF i > NbPipelines THEN 0
    ELSE pipeline[i].average_phase_error + SumPhaseError(i + 1)

\* CalculateFineFrequencyError applied to the sum divided by nb_frame_symbols
CalculateFineFrequencyError(sum_cyclic_error) ==
    TruncDiv(FreqQ * sum_cyclic_error, nb_frame_symbols * PhaseTurn)

FineDelta ==
    LET fine_freq_error == CalculateFineFrequencyError(SumPhaseError(1))
    IN  -TruncDiv(cfg.fine_freq_update_beta[1] * fine_freq_error,
                  cfg.fine_freq_update_beta[2])

\* The sum of the workers' phase errors, then UpdateFineFrequencyOffset(delta):
\* scoped_lock and the load of "freq_fine_offset += delta"
CoordinatorFineLock ==
    /\ cpc = "fine_lock"
    /\ mutex_freq_fine_offset = "free"
    /\ mutex_freq_fine_offset' = "coordinator"
    /\ c_local' = freq_fine_offset + FineDelta
    /\ cpc' = "fine_store"
    /\ UNCHANGED << coordinator, ci, cycle, total_frames_read, pipeline,
                    is_found_coarse_freq_offset, freq_coarse_offset,
                    freq_fine_offset, events >>
    /\ CoordinatorUnchanged

\* ... the store of "freq_fine_offset += delta"
CoordinatorFineStore ==
    /\ cpc = "fine_store"
    /\ freq_fine_offset' = c_local
    /\ c_local' = 0
    /\ cpc' = "fine_fmod"
    /\ UNCHANGED << coordinator, ci, cycle, total_frames_read, pipeline,
                    is_found_coarse_freq_offset, freq_coarse_offset,
                    mutex_freq_fine_offset, events >>
    /\ CoordinatorUnchanged

\* ... the fmod and the unlock
CoordinatorFineFmod ==
    /\ cpc = "fine_fmod"
    /\ freq_fine_offset' = FMod(freq_fine_offset, fft_bin_wrap)
    /\ mutex_freq_fine_offset' = "free"
    /\ events' = BumpGlobal("fine_update")
    /\ cpc' = LoopPc(1, "wait_end", "signal_end")
    /\ ci' = 1
    /\ UNCHANGED << coordinator, c_local, cycle, total_frames_read, pipeline,
                    is_found_coarse_freq_offset, freq_coarse_offset >>
    /\ CoordinatorUnchanged

\* Variant: the coordinator does not wait for the workers' end
CoordinatorSkipWaitEnd ==
    /\ cpc = "wait_end"
    /\ cpc' = LoopPc(ci + 1, "wait_end", "signal_end")
    /\ ci' = LoopIndex(ci + 1)
    /\ UNCHANGED << coordinator, pipeline, c_local, cycle, total_frames_read,
                    freqVars, events >>
    /\ CoordinatorUnchanged

\* pipeline->WaitEnd() returns for the pipeline at index ci
CoordinatorWaitEnd ==
    /\ cpc = "wait_end"
    /\ BarrierOpen(pipeline[ci], "is_end")
    /\ pipeline' = [pipeline EXCEPT ![ci] = BarrierTake(@, "is_end")]
    /\ cpc' = LoopPc(ci + 1, "wait_end", "signal_end")
    /\ ci' = LoopIndex(ci + 1)
    /\ UNCHANGED << coordinator, c_local, cycle, total_frames_read, freqVars,
                    events >>
    /\ CoordinatorUnchanged

\* Variant: the coordinator returns after SignalEnd without the notification
CoordinatorSignalEndOnly ==
    /\ cpc = "signal_end"
    /\ coordinator' = BarrierSignal(coordinator, "is_end")
    /\ events' = BumpGlobal("coord_end")
    /\ cpc' = "wait_start"
    /\ UNCHANGED << ci, c_local, cycle, total_frames_read, pipeline, freqVars >>
    /\ CoordinatorUnchanged

\* Variant: the coordinator goes on to the notification without SignalEnd
CoordinatorNoSignalEnd ==
    /\ cpc = "signal_end"
    /\ events' = BumpGlobal("coord_end")
    /\ cpc' = "notify"
    /\ UNCHANGED << coordinator, ci, c_local, cycle, total_frames_read, pipeline,
                    freqVars >>
    /\ CoordinatorUnchanged

\* coordinator->SignalEnd()
CoordinatorSignalEnd ==
    /\ cpc = "signal_end"
    /\ coordinator' = BarrierSignal(coordinator, "is_end")
    /\ events' = BumpGlobal("coord_end")
    /\ cpc' = "notify"
    /\ UNCHANGED << ci, c_local, cycle, total_frames_read, pipeline, freqVars >>
    /\ CoordinatorUnchanged

\* total_frames_read++ and obs_on_ofdm_frame.Notify(pipeline_out_bits)
CoordinatorNotify ==
    /\ cpc = "notify"
    /\ total_frames_read' = total_frames_read + 1
    /\ events' = BumpGlobal("notify")
    /\ cpc' = "wait_start"
    /\ UNCHANGED << coordinator, ci, c_local, cycle, pipeline, freqVars >>
    /\ CoordinatorUnchanged

CoordinatorThread ==
    \/ CoordinatorWaitStart
    \/ CoordinatorSignalStart
    \/ CoordinatorWaitPhaseError
    \/ CoordinatorFineLock
    \/ CoordinatorFineStore
    \/ CoordinatorFineFmod
    \/ CoordinatorWaitEnd
    \/ CoordinatorSignalEnd
    \/ CoordinatorNotify

\* ------------------------------------------------------------------------
\* Pipeline threads: OFDM_Demod::PipelineThread
\* ------------------------------------------------------------------------
symbol_start(w) == pipelines[w].symbol_start

symbol_end(w) == pipelines[w].symbol_end

symbol_end_no_null(w) == Min(symbol_end(w), nb_frame_symbols)

symbol_end_dqpsk(w) == Min(symbol_end(w), nb_frame_symbols - 1)

HasDependent(w) == w + 1 <= NbPipelines

WorkerUnchanged ==
    UNCHANGED << cfg, ctor, pad, pipelines, ingestVars, freqVars, coordVars, dtorVars,
                 active_buffer_data, inactive_buffer_data >>

Goto(w, pc) == wpc' = [wpc EXCEPT ![w] = pc]

\* thread_data.WaitStart() returns; if (thread_data.IsStopped()) return false;
PipelineWaitStart(w) ==
    /\ wpc[w] = "wait_start"
    /\ BarrierOpen(pipeline[w], "is_start")
    /\ pipeline' = [pipeline EXCEPT ![w] = BarrierTake(@, "is_start")]
    /\ Goto(w, IF pipeline[w].is_terminated THEN "exited" ELSE "apply_pll")
    /\ UNCHANGED << w_local, buffer_data, resultVars, events >>
    /\ WorkerUnchanged

\* Sum of CalculateCyclicPhaseError over the non-NULL symbols of the range
TotalPhaseError(w) ==
    LET n == symbol_end_no_null(w) - symbol_start(w)
    IN  IF n > 0 THEN n * buffer_data[active_buffer_data].phase ELSE 0

\* The local copy of the frequency offset, ApplyPLL in place on every symbol
\* of the worker's range, the phase error sum, SetAveragePhaseError and
\* SignalPhaseError
PipelineApplyPLL(w) ==
    /\ wpc[w] = "apply_pll"
    /\ w_local' = [w_local EXCEPT ![w].coarse = freq_coarse_offset,
                                  ![w].fine = freq_fine_offset]
    /\ buffer_data' = [buffer_data EXCEPT ![active_buffer_data].pll =
           @ \cup (symbol_start(w) .. symbol_end(w) - 1)]
    /\ pipeline' = [pipeline EXCEPT ![w] =
           BarrierSignal([@ EXCEPT !.average_phase_error = TotalPhaseError(w)],
                         "is_phase_error_done")]
    /\ events' = BumpWorker(w, "phase_error")
    /\ Goto(w, "fft_first")
    /\ UNCHANGED << resultVars >>
    /\ WorkerUnchanged

\* calculate_fft(start, end): FFT of the symbols start .. end-1 of the active
\* buffer into fft, a copy of pipeline_fft_buffer
calculate_fft(fft, start, end) ==
    [s \in Symbols |->
        IF start <= s /\ s < end
        THEN buffer_data[active_buffer_data].frame
        ELSE fft[s]]

\* calculate_fft(symbol_start, symbol_start+1) and SignalFFT
PipelineFFTFirst(w) ==
    /\ wpc[w] = "fft_first"
    /\ pipeline_fft_buffer' =
           calculate_fft(pipeline_fft_buffer, symbol_start(w), symbol_start(w) + 1)
    /\ pipeline' = [pipeline EXCEPT ![w] = BarrierSignal(@, "is_fft_done")]
    /\ events' = BumpWorker(w, "fft")
    /\ Goto(w, "fft_rest")
    /\ UNCHANGED << w_local, buffer_data, pipeline_out_bits >>
    /\ WorkerUnchanged

\* Largest soft decision value, the A of "between -A and A"
SOFT_DECISION_VITERBI_HIGH == 127

\* Values of the integer type viterbi_bit_t
ViterbiBitType == -(SOFT_DECISION_VITERBI_HIGH + 1) .. SOFT_DECISION_VITERBI_HIGH

\* Largest component of a DQPSK vector tried
MaxVec == 3

\* DQPSK vectors <<real, imag>>, the zero vector among them
DqpskVectors == (-MaxVec .. MaxVec) \X (-MaxVec .. MaxVec)

\* convert_to_viterbi_bit(x) for x = num / den: the values the cast
\* (viterbi_bit_t)(-x * scale) can give. A float in range is truncated toward
\* zero; den = 0 is the quotient 0/0 of the zero vector, a NaN, whose
\* conversion to an integer is undefined
convert_to_viterbi_bit(num, den) ==
    IF den = 0 THEN ViterbiBitType
    ELSE { TruncDiv(-num * SOFT_DECISION_VITERBI_HIGH, den) }

\* The pairs <<bit_buf[i], bit_buf[i+N]>> CalculateViterbiBits can write for
\* the carrier whose DQPSK vector is vec
ViterbiBitsOf(vec) ==
    LET A == IF Abs(vec[1]) > Abs(vec[2]) THEN Abs(vec[1]) ELSE Abs(vec[2])
    IN  convert_to_viterbi_bit(vec[1], A) \X convert_to_viterbi_bit(-vec[2], A)

\* Indices of bit_buf written by CalculateViterbiBits
ViterbiIndices ==
    { i : i \in 0 .. nb_data_carriers - 1 }
        \cup { i + nb_data_carriers : i \in 0 .. nb_data_carriers - 1 }

\* calculate_dqpsk(start, end) by worker w: CalculateDQPSK of fft[i+1] and
\* fft[i], then CalculateViterbiBits into the output span of symbol i
calculate_dqpsk(w, fft, start, end) ==
    [k \in 0 .. OutLen - 1 |->
        LET i == k \div nb_viterbi_bits
        IN  IF start <= i /\ i < end /\ (k - i * nb_viterbi_bits) \in ViterbiIndices
            THEN [cycle |-> cycle, by |-> w, f0 |-> fft[i], f1 |-> fft[i + 1]]
            ELSE pipeline_out_bits[k]]

\* calculate_fft(symbol_start+1, symbol_end) and the DQPSK that needs no
\* other thread's FFT
PipelineFFTRest(w) ==
    /\ wpc[w] = "fft_rest"
    /\ LET fft == calculate_fft(pipeline_fft_buffer, symbol_start(w) + 1, symbol_end(w))
       IN  /\ pipeline_fft_buffer' = fft
           /\ IF HasDependent(w)
              THEN /\ pipeline_out_bits' =
                          calculate_dqpsk(w, fft, symbol_start(w), symbol_end_dqpsk(w) - 1)
                   /\ Goto(w, "wait_fft")
              ELSE /\ pipeline_out_bits' =
                          calculate_dqpsk(w, fft, symbol_start(w), symbol_end_dqpsk(w))
                   /\ Goto(w, "signal_end")
    /\ UNCHANGED << pipeline, w_local, buffer_data, events >>
    /\ WorkerUnchanged

\* The last DQPSK symbol of worker w reads an FFT result that another worker
\* writes and that no barrier orders: its first input, symbol
\* symbol_end_dqpsk - 1, lies before the worker's own range
ReadsForeignFFT(w) == symbol_end_dqpsk(w) - 1 < symbol_start(w)

\* dependent_thread_data->WaitFFT() returns, then
\* calculate_dqpsk(symbol_end_dqpsk-1, symbol_end_dqpsk). Its reads of
\* pipeline_fft_buffer and its write of pipeline_out_bits are one step when
\* the inputs are the worker's own FFT and the one just waited for; when an
\* input is unordered with its writer the reads are a step of their own, so
\* that the other worker can run between them and the write
PipelineWaitFFT(w) ==
    /\ wpc[w] = "wait_fft"
    /\ LET i == symbol_end_dqpsk(w) - 1
       IN  IF w_local[w].loaded
           THEN /\ pipeline_out_bits' =
                       calculate_dqpsk(w, [pipeline_fft_buffer EXCEPT
                                              ![i] = w_local[w].fft_buf_0,
                                              ![i + 1] = w_local[w].fft_buf_1],
                                       i, symbol_end_dqpsk(w))
                /\ w_local' = [w_local EXCEPT ![w].loaded = FALSE,
                                              ![w].fft_buf_0 = 0,
                                              ![w].fft_buf_1 = 0]
                /\ Goto(w, "signal_end")
                /\ UNCHANGED pipeline
           ELSE /\ BarrierOpen(pipeline[w + 1], "is_fft_done")
                /\ pipeline' = [pipeline EXCEPT ![w + 1] = BarrierTake(@, "is_fft_done")]
                /\ IF ReadsForeignFFT(w)
                   THEN /\ w_local' = [w_local EXCEPT
                                          ![w].loaded = TRUE,
                                          ![w].fft_buf_0 = pipeline_fft_buffer[i],
                                          ![w].fft_buf_1 = pipeline_fft_buffer[i + 1]]
                        /\ UNCHANGED << pipeline_out_bits, wpc >>
                   ELSE /\ pipeline_out_bits' =
                               calculate_dqpsk(w, pipeline_fft_buffer,
                                               i, symbol_end_dqpsk(w))
                        /\ Goto(w, "signal_end")
                        /\ UNCHANGED w_local
    /\ UNCHANGED << buffer_data, pipeline_fft_buffer, events >>
    /\ WorkerUnchanged

\* thread_data.SignalEnd() and the return to the thread's loop
PipelineSignalEnd(w) ==
    /\ wpc[w] = "signal_end"
    /\ pipeline' = [pipeline EXCEPT ![w] = BarrierSignal(@, "is_end")]
    /\ events' = BumpWorker(w, "end")
    /\ w_local' = [w_local EXCEPT ![w] = NoLocals]
    /\ Goto(w, "wait_start")
    /\ UNCHANGED << buffer_data, resultVars >>
    /\ WorkerUnchanged

PipelineThread(w) ==
    \/ PipelineWaitStart(w)
    \/ PipelineApplyPLL(w)
    \/ PipelineFFTFirst(w)
    \/ PipelineFFTRest(w)
    \/ PipelineWaitFFT(w)
    \/ PipelineSignalEnd(w)

\* ------------------------------------------------------------------------
\* Destructor: OFDM_Demod::~OFDM_Demod, run by the caller between two calls
\* of Process
\* ------------------------------------------------------------------------
DestructorUnchanged ==
    UNCHANGED << cfg, ctor, pad, pipelines, ingestVars, freqVars, bufferVars, resultVars,
                 cpc, ci, c_local, cycle, total_frames_read, wpc, w_local,
                 events >>

\* coordinator->Stop()
DestructorStopCoordinator ==
    /\ dpc = "none"
    /\ ipc = "idle"
    /\ coordinator' = BarrierStop(coordinator)
    /\ dpc' = "join_coordinator"
    /\ UNCHANGED << di, pipeline >>
    /\ DestructorUnchanged

\* coordinator_thread->join() returns
DestructorJoinCoordinator ==
    /\ dpc = "join_coordinator"
    /\ cpc = "exited"
    /\ dpc' = LoopPc(1, "stop_pipelines", "done")
    /\ di' = 1
    /\ UNCHANGED << coordinator, pipeline >>
    /\ DestructorUnchanged

\* Variant: the destructor's first loop leaves the pipelines running
DestructorSkipStopPipeline ==
    /\ dpc = "stop_pipelines"
    /\ dpc' = LoopPc(di + 1, "stop_pipelines", "join_pipelines")
    /\ di' = LoopIndex(di + 1)
    /\ UNCHANGED << coordinator, pipeline >>
    /\ DestructorUnchanged

\* pipeline->Stop() for the pipeline at index di
DestructorStopPipeline ==
    /\ dpc = "stop_pipelines"
    /\ pipeline' = [pipeline EXCEPT ![di] = BarrierStop(@)]
    /\ dpc' = LoopPc(di + 1, "stop_pipelines", "join_pipelines")
    /\ di' = LoopIndex(di + 1)
    /\ UNCHANGED << coordinator >>
    /\ DestructorUnchanged

\* pipeline_thread->join() returns for the thread at index di
DestructorJoinPipeline ==
    /\ dpc = "join_pipelines"
    /\ wpc[di] = "exited"
    /\ dpc' = LoopPc(di + 1, "join_pipelines", "done")
    /\ di' = LoopIndex(di + 1)
    /\ UNCHANGED << coordinator, pipeline >>
    /\ DestructorUnchanged

Destructor ==
    \/ DestructorStopCoordinator
    \/ DestructorJoinCoordinator
    \/ DestructorStopPipeline
    \/ DestructorJoinPipeline

\* ------------------------------------------------------------------------
\* Specification
\* ------------------------------------------------------------------------
\* Block size of the L1 estimator and batch size used where the batching is
\* not the subject: two blocks per Process call
WideBlock == nb_symbol_period + nb_fft

WideBatch == 2 * WideBlock

\* Thread protocol: no worker (automatic count on a system that reports no
\* hardware thread) and every explicit count up to MaxThreads, the
\* destructor, one batch size, the coarse peak at offset 0 and the impulse
\* peak at its expected index
Init == Constructed(WideBlock, 0 .. MaxThreads, {0}) /\ Started

Next ==
    \/ Ingest({WideBatch}, {0}, {nb_cyclic_prefix}, {1})
    \/ CoordinatorThread
    \/ \E w \in Workers : PipelineThread(w)
    \/ Destructor

Spec == Init /\ [][Next]_vars

\* A step of the caller inside a Process call it has already made
IngestRun == ipc # "idle" /\ Ingest({WideBatch}, {0}, {nb_cyclic_prefix}, {1})

\* Every thread that can run does run; the application need not call Process
Fairness ==
    /\ WF_vars(IngestRun)
    /\ WF_vars(CoordinatorThread)
    /\ \A w \in 1 .. MaxThreads : WF_vars(w \in Workers /\ PipelineThread(w))
    /\ WF_vars(Destructor)

\* Liveness is checked for up to MaxThreads - 1 workers
InitFair == Constructed(WideBlock, 0 .. MaxThreads - 1, {0}) /\ Started

FairSpec == InitFair /\ [][Next]_vars /\ Fairness

\* Frequency tracking: two workers, the coarse peak at offset 0 or 1 and
\* both signs of the cyclic phase error
FreqPeaks == {0, 1}

InitFreq == Constructed(WideBlock, {2}, {0}) /\ Started

NextFreq ==
    \/ Ingest({WideBatch}, FreqPeaks, {nb_cyclic_prefix}, PhaseErrs)
    \/ CoordinatorThread
    \/ \E w \in Workers : PipelineThread(w)

SpecFreq == InitFreq /\ [][NextFreq]_vars

\* Construction and destruction with no Process call in between: every
\* nb_desired_threads from -1 and every hardware_concurrency() from 0 to beyond
\* the number of symbols of a frame
MaxDesired == MaxThreads + 2

MaxCores == MaxThreads + 3

InitThreads == Constructed(WideBlock, -1 .. MaxDesired, 0 .. MaxCores) /\ Started

NextThreads ==
    \/ CoordinatorWaitStart
    \/ \E w \in Workers : PipelineWaitStart(w)
    \/ Destructor

SpecThreads == InitThreads /\ [][NextThreads]_vars

\* Coarse corrections of two bins: two workers, the coarse peak one bin below
\* or one bin above the carrier
CoarsePeaks == {-1, 1}

NextCoarse ==
    \/ Ingest({WideBatch}, CoarsePeaks, {nb_cyclic_prefix}, {1})
    \/ CoordinatorThread
    \/ \E w \in Workers : PipelineThread(w)

SpecCoarse == InitFreq /\ [][NextCoarse]_vars

\* Batching: two workers, every batch size up to MaxBatch with a block of two
\* samples, every position of the impulse peak
InitIngest == Constructed(2, {2}, {0}) /\ Started

NextIngest ==
    \/ Ingest(0 .. MaxBatch, {0}, 0 .. nb_fft - 1, {1})
    \/ CoordinatorThread
    \/ \E w \in Workers : PipelineThread(w)

SpecIngest == InitIngest /\ [][NextIngest]_vars

\* Fine time synchronisation: as SpecIngest, with the impulse peak searched in
\* every impulse response over ImpulseLevels
NextImpulse ==
    \/ \E N \in 0 .. MaxBatch, loud \in BOOLEAN : Process(N, loud)
    \/ ProcessReturn
    \/ \E cls \in [1 .. NbBlocks(N_remain) -> BlockClasses] : FindNullPowerDip(cls)
    \/ ReadNullPRS
    \/ RunCoarseFreqSyncOff
    \/ RunCoarseFreqSync(0)
    \/ IngestFineLock
    \/ IngestFineFmod
    \/ \E impulse \in ImpulseResponses : RunFineTimeSyncImpulse(impulse, 1)
    \/ ReadSymbols
    \/ ReadSymbolsWaitEnd
    \/ ReadSymbolsSwap
    \/ ReadSymbolsReset
    \/ ReadSymbolsSignalStart
    \/ CoordinatorThread
    \/ \E w \in Workers : PipelineThread(w)

SpecImpulse == InitIngest /\ [][NextImpulse]_vars

\* ------------------------------------------------------------------------
\* Properties
\* ------------------------------------------------------------------------
AllParked == \A w \in Workers : wpc[w] \in {"wait_start", "exited"}

InWorkerCycle == \E w \in Workers : wpc[w] \notin {"wait_start", "exited"}

InCoordinatorCycle == cpc \notin {"wait_start", "exited"}

\* C1: inside every Process call the running index never exceeds the batch
\* length N, a call is back at the caller only with the index equal to N, and
\* at most two handlers in a row return zero samples, so every third handler
\* step at the latest consumes a sample and the call ends after finitely
\* many steps
C1_ProcessConsumesBatch ==
    /\ curr_index <= buf_N
    /\ (ipc = "idle" => curr_index = buf_N)
    /\ zero_reads <= 2
    /\ (zero_reads > 0 => curr_index < buf_N)

\* A call with the largest batch returned after handing a frame over, and
\* after a desync had gone through the zero-consumption handlers
C1_Witness ==
    /\ ipc = "idle"
    /\ buf_N = MaxBatch
    /\ curr_index = buf_N
    /\ events.global.ingest_start >= 1
    /\ total_frames_desync >= 1

\* C2: while the coordinator is not stopped, every frame ingest handed over
\* with SignalStart is either already notified, being processed by the
\* coordinator, or pending in the start flag: the observer is run by the
\* coordinator's own thread, once per coordinator cycle, never twice for a
\* frame and never for a frame that was not handed over
FramesPending == IF coordinator.is_start THEN 1 ELSE 0

FramesInFlight == IF InCoordinatorCycle THEN 1 ELSE 0

C2_NotifyOncePerFrame ==
    /\ events.global.notify = total_frames_read
    /\ cycle = events.global.notify + FramesInFlight
    /\ ~coordinator.is_terminated =>
           events.global.ingest_start = cycle + FramesPending

\* Every frame handed over has been notified, with the coordinator running
C2_Witness ==
    /\ events.global.notify = MaxFrames
    /\ events.global.ingest_start = MaxFrames
    /\ ~coordinator.is_terminated

\* C3: when the observer is notified the output has
\* (nb_frame_symbols - 1) * nb_data_carriers * 2 soft bits and every one of
\* them was written by a worker during the coordinator cycle of that frame
C3_OutputWrittenThisCycle ==
    cpc = "notify" =>
        /\ DOMAIN pipeline_out_bits =
               0 .. (nb_frame_symbols - 1) * nb_data_carriers * 2 - 1
        /\ \A k \in DOMAIN pipeline_out_bits :
               /\ pipeline_out_bits[k].cycle = cycle
               /\ pipeline_out_bits[k].by \in Workers

\* C4: the swap step exchanges the two buffers, making the buffer that holds
\* the frame about to be handed over the active one; when SignalStart is
\* issued the new inactive buffer has been reset and every worker is still
\* parked with no start signal pending
C4_SwapThenReset ==
    [][ /\ (ipc = "swap" /\ ipc' # ipc) =>
               /\ active_buffer_data' = inactive_buffer_data
               /\ inactive_buffer_data' = active_buffer_data
               /\ inactive_buffer = FrameCapacity
               /\ buffer_data'[active_buffer_data'].frame =
                      events.global.ingest_start + 1
        /\ (ipc = "signal_start" /\ ipc' # ipc) =>
               /\ inactive_buffer = 0
               /\ buffer_data[active_buffer_data].frame =
                      events'.global.ingest_start
               /\ AllParked
               /\ \A w \in Workers : ~pipeline[w].is_start
      ]_vars

\* The second frame is about to be handed over: the buffers are back in
\* their first roles and the inactive one is reset
C4_Witness ==
    /\ ipc = "signal_start"
    /\ events.global.ingest_start = 1
    /\ inactive_buffer = 0
    /\ active_buffer_data = 0
    /\ NbPipelines >= 1

\* C5 as amended: the active buffer is written only by a worker in its cycle,
\* which corrects in place the symbols of its own range and nothing else;
\* the inactive buffer is written only by ingest; the two buffers are
\* swapped only by ingest, after the coordinator's end barrier of the last
\* frame handed over, while every worker is parked
C5_BufferOwnership ==
    [][ /\ buffer_data'[active_buffer_data] # buffer_data[active_buffer_data] =>
               \E w \in Workers :
                   /\ wpc[w] = "apply_pll" /\ wpc'[w] = "fft_first"
                   /\ buffer_data'[active_buffer_data] =
                          [buffer_data[active_buffer_data] EXCEPT !.pll =
                              @ \cup (symbol_start(w) .. symbol_end(w) - 1)]
        /\ buffer_data'[inactive_buffer_data] # buffer_data[inactive_buffer_data] =>
               /\ ipc = "run"
               /\ wpc' = wpc /\ cpc' = cpc
        /\ active_buffer_data' # active_buffer_data =>
               /\ ipc = "swap"
               /\ AllParked
               /\ \A w \in Workers : ~pipeline[w].is_start
               /\ events.global.coord_end = events.global.ingest_start
      ]_vars

\* A worker has corrected its symbols in the active buffer while the other
\* worker has not begun
C5_Witness ==
    /\ NbPipelines = 2
    /\ wpc[1] = "wait_start"
    /\ wpc[2] = "fft_first"
    /\ buffer_data[active_buffer_data].pll = symbol_start(2) .. symbol_end(2) - 1

\* C5 as stated: the active buffer does not change during a worker cycle
C5_ActiveReadOnly ==
    [][InWorkerCycle =>
           buffer_data'[active_buffer_data] = buffer_data[active_buffer_data]]_vars

\* C6 as stated: every step that changes freq_fine_offset is taken by a
\* thread holding mutex_freq_fine_offset (the coordinator, or ingest, which
\* takes the mutex in the step or holds it already), and every step that
\* changes freq_coarse_offset is a step of the ingest thread
C6_FineOffsetUnderMutex ==
    [][ /\ freq_fine_offset' # freq_fine_offset =>
               \/ cpc' # cpc /\ mutex_freq_fine_offset = "coordinator"
               \/ /\ cpc' = cpc
                  /\ \/ mutex_freq_fine_offset = "ingest"
                     \/ mutex_freq_fine_offset' = "ingest"
        /\ freq_coarse_offset' # freq_coarse_offset =>
               cpc' = cpc /\ wpc' = wpc /\ dpc' = dpc
      ]_vars

IngestBlocked ==
    \/ ipc = "wait_end" /\ ~BarrierOpen(coordinator, "is_end")
    \/ ipc = "fine_lock" /\ mutex_freq_fine_offset # "free"

\* Frames whose ReadSymbols is past the call of WaitEnd but has not yet
\* signalled the start
FramesAtBarrier ==
    IF ipc \in {"wait_end", "swap", "reset", "signal_start"} THEN 1 ELSE 0

\* C8 as amended: ingest calls WaitEnd once per frame, and it may also wait
\* for mutex_freq_fine_offset in RunCoarseFreqSync while the coordinator
\* updates the fine offset; when the coordinator and the workers are
\* scheduled fairly both waits return, the wait for the first frame included
C8_WaitsReturn ==
    /\ [](events.global.wait_end = events.global.ingest_start + FramesAtBarrier)
    /\ (ipc = "wait_end" ~> ipc = "swap")
    /\ (ipc = "fine_lock" ~> ipc = "fine_fmod")

\* The wait of the second frame has returned, after a cycle of two workers
C8_Witness ==
    /\ ipc = "swap"
    /\ events.global.ingest_start = 1
    /\ events.global.coord_end = 1
    /\ NbPipelines >= 2

\* C8 as stated: WaitEnd is the only place where ingest blocks
C8_BlocksOnlyAtWaitEnd == IngestBlocked => ipc = "wait_end"

AllExited == \A w \in Workers : wpc[w] = "exited"

\* C9: once the destructor has stopped the coordinator, the coordinator
\* thread exits, and it exits with no frame left half processed; after the
\* Stop of every worker all worker threads exit and both join loops end
C9_ShutdownTerminates ==
    /\ [](cpc = "exited" => cycle = events.global.notify)
    /\ [](dpc = "done" => cpc = "exited" /\ AllExited)
    /\ (dpc = "join_coordinator" ~> dpc = "done")

\* The destructor has returned after a frame was processed by two or more
\* workers
C9_Witness ==
    /\ dpc = "done"
    /\ NbPipelines >= 2
    /\ total_frames_read >= 1
    /\ AllExited

C12_ResetStaysZero ==
    [][ /\ (state # "FINDING_NULL_POWER_DIP" /\ state' = "FINDING_NULL_POWER_DIP") =>
                /\ freq_coarse_offset' = 0
                /\ freq_fine_offset' = 0
                /\ fine_time_offset' = 0
                /\ ~is_found_coarse_freq_offset'
                /\ correlation_time_buffer' = 0
        /\ (state = "FINDING_NULL_POWER_DIP" /\ state' # "FINDING_NULL_POWER_DIP") =>
                /\ freq_coarse_offset' = 0
                /\ freq_fine_offset' = 0
                /\ ~is_found_coarse_freq_offset' ]_vars
\* C13: the number of workers is min(nb_frame_symbols + 1, nb_desired_threads)
\* when nb_desired_threads is positive and min(nb_frame_symbols + 1,
\* hardware_concurrency - 1) otherwise, for every hardware_concurrency
C13_WorkerCount ==
    NbPipelines = Min(nb_frame_symbols + 1,
                      IF ctor.nb_desired_threads > 0 THEN ctor.nb_desired_threads
                      ELSE ctor.total_system_threads - 1)

\* C13 as the code has it: the explicit count is capped at nb_frame_symbols +
\* 1; the automatic count caps hardware_concurrency at nb_frame_symbols + 1
\* first and then leaves one thread to the caller when more than one is left,
\* so it is hardware_concurrency itself for 0 and 1, hardware_concurrency - 1
\* up to nb_frame_symbols + 1, and nb_frame_symbols above that
C13_WorkerCountCapFirst ==
    NbPipelines =
        IF ctor.nb_desired_threads > 0
        THEN Min(nb_frame_symbols + 1, ctor.nb_desired_threads)
        ELSE IF ctor.total_system_threads <= 1 THEN ctor.total_system_threads
        ELSE IF ctor.total_system_threads <= nb_frame_symbols + 1
             THEN ctor.total_system_threads - 1
        ELSE nb_frame_symbols

\* Automatic count on a system with more hardware threads than symbols, all
\* workers started and stopped again
C13_Witness ==
    /\ ctor.nb_desired_threads <= 0
    /\ ctor.total_system_threads > nb_frame_symbols + 1
    /\ NbPipelines = nb_frame_symbols
    /\ AllExited

\* C14: for every worker count from 1 to nb_frame_symbols + 1 the symbol
\* ranges are non-empty, contiguous from 0 to nb_frame_symbols + 1 and
\* pairwise disjoint, so every symbol belongs to exactly one worker
C14_RangesPartition ==
    NbPipelines >= 1 =>
        /\ NbPipelines <= nb_frame_symbols + 1
        /\ pipelines[1].symbol_start = 0
        /\ pipelines[NbPipelines].symbol_end = nb_frame_symbols + 1
        /\ \A w \in Workers : pipelines[w].symbol_start < pipelines[w].symbol_end
        /\ \A w \in Workers \ {NbPipelines} :
                pipelines[w + 1].symbol_start = pipelines[w].symbol_end
        /\ \A s \in 0 .. nb_frame_symbols :
                Cardinality({ w \in Workers : /\ pipelines[w].symbol_start <= s
                                              /\ s < pipelines[w].symbol_end }) = 1

\* Three workers share four symbols as 2, 1 and 1, and all of them have run
\* and exited
C14_Witness ==
    /\ NbPipelines = 3
    /\ pipelines[1] = [symbol_start |-> 0, symbol_end |-> 2]
    /\ pipelines[2] = [symbol_start |-> 2, symbol_end |-> 3]
    /\ pipelines[3] = [symbol_start |-> 3, symbol_end |-> 4]
    /\ dpc = "done"
\* C15: the soft bits the observer receives for a frame do not depend on the
\* number of workers: whatever the worker count, every soft bit of every
\* output symbol i is computed from the FFT results of symbols i and i + 1
\* of that same frame, as the single worker computes it
C15_OutputSameForEveryCount ==
    (cpc = "notify" /\ NbPipelines >= 1) =>
        \A k \in DOMAIN pipeline_out_bits :
            /\ pipeline_out_bits[k].f0 = cycle
            /\ pipeline_out_bits[k].f1 = cycle
\* Samples of the PRS and the data symbols of one frame; the frame buffer
\* holds these and the NULL period that follows them
FrameSamples == nb_frame_symbols * nb_symbol_period

\* Frames of the input all of whose samples have been consumed: those handed
\* to the coordinator and the one in the inactive buffer once its last data
\* symbol is complete
FramesFed ==
    events.global.ingest_start
        + (IF state = "READING_SYMBOLS" /\ inactive_buffer >= FrameSamples THEN 1 ELSE 0)

\* No Process call is running, the coordinator is parked with no frame
\* pending, and no desync has happened
Settled ==
    /\ ipc = "idle"
    /\ cpc = "wait_start"
    /\ ~coordinator.is_start
    /\ total_frames_desync = 0

\* C16: when k frames have been fed back to back and nothing else, the input
\* is consumed and the coordinator is idle, total_frames_read is k
C16_EveryFedFrameRead == Settled => total_frames_read = FramesFed

\* C16 as the code has it: a frame is handed over only when the NULL period
\* that follows it has been consumed too, so once everything is settled
\* total_frames_read and the number of notifications equal the number of
\* frames whose following NULL period has been fed; that is one less than
\* the frames fed while the last frame waits in the inactive buffer. The
\* i-th notification delivers the soft bits of the i-th frame, and every
\* sample consumed after the null detection is appended to the correlation
\* buffer or to the frame buffer
C16_ReadAfterFollowingNull ==
    /\ [](Settled =>
            /\ total_frames_read = events.global.ingest_start
            /\ events.global.notify = total_frames_read
            /\ total_frames_read \in {FramesFed, FramesFed - 1}
            /\ (total_frames_read = FramesFed - 1) <=>
                   (state = "READING_SYMBOLS" /\ inactive_buffer >= FrameSamples)
            /\ state = "READING_SYMBOLS" => inactive_buffer < FrameCapacity
            /\ (state = "READING_NULL_AND_PRS" /\ total_frames_read >= 1) =>
                   correlation_time_buffer >= nb_null_period)
    /\ [](cpc = "notify" =>
            /\ events.global.notify + 1 = cycle
            /\ \A k \in DOMAIN pipeline_out_bits :
                   pipeline_out_bits[k].f0 = cycle /\ pipeline_out_bits[k].f1 = cycle)
    /\ [][ /\ InLoop("READING_NULL_AND_PRS") =>
                curr_index' - curr_index =
                    correlation_time_buffer' - correlation_time_buffer
           /\ InLoop("READING_SYMBOLS") =>
                inactive_buffer' - inactive_buffer =
                    IF ipc' = "wait_end" THEN i_local'.nb_read
                    ELSE curr_index' - curr_index
           /\ (ipc = "signal_start" /\ ipc' # "signal_start") =>
                curr_index' - curr_index = i_local.nb_read ]_vars

\* Two frames and the NULL period after the second have been fed and both
\* frames have been read
C16_Witness ==
    /\ Settled
    /\ total_frames_read = MaxFrames
    /\ state = "READING_NULL_AND_PRS"
    /\ correlation_time_buffer = nb_null_period
\* Sample sequences of up to MaxSeq samples
SampleSeqs == UNION { [1 .. n -> SampleKinds] : n \in 1 .. MaxSeq }

\* C18: for every sample sequence and every split point, feeding the
\* sequence as one batch or as two consecutive batches leaves the FSM in the
\* same state with the same null-search flag and the same fill levels of the
\* null and correlation buffers
C18_SplitInvariant ==
    (ipc = "idle" /\ state = "FINDING_NULL_POWER_DIP" /\ signal_l1_average = "positive") =>
        LET s0 == [state                   |-> state,
                   is_null_start_found     |-> is_null_start_found,
                   null_power_dip_buffer   |-> null_power_dip_buffer,
                   correlation_time_buffer |-> correlation_time_buffer]
        IN  \A samples \in SampleSeqs :
                \A j \in 1 .. Len(samples) - 1 :
                    ProcessFrom(ProcessFrom(s0, SubSeq(samples, 1, j)),
                                SubSeq(samples, j + 1, Len(samples)))
                        = ProcessFrom(s0, samples)
\* C19: the handlers that read the contents of correlation_time_buffer are
\* those of RUNNING_COARSE_FREQ_SYNC and RUNNING_FINE_TIME_SYNC, and whenever
\* the FSM is in one of these states the buffer holds exactly nb_null_period +
\* nb_symbol_period samples; in every other state it holds fewer
C19_CorrelationFullWhenRead ==
    /\ state \in {"RUNNING_COARSE_FREQ_SYNC", "RUNNING_FINE_TIME_SYNC"} =>
           correlation_time_buffer = nb_null_period + nb_symbol_period
    /\ state \notin {"RUNNING_COARSE_FREQ_SYNC", "RUNNING_FINE_TIME_SYNC"} =>
           correlation_time_buffer < nb_null_period + nb_symbol_period

\* The fine time synchronisation of the second frame is about to read the
\* buffer, which was started from the trailing NULL of the first frame
C19_Witness ==
    /\ InLoop("RUNNING_FINE_TIME_SYNC")
    /\ correlation_time_buffer = CorrelationCapacity
    /\ events.global.ingest_start >= 1
\* C20: in FINDING_NULL_POWER_DIP a batch, or rest of a batch, of fewer than
\* signal_l1.nb_samples samples is consumed in full and appended to the null
\* power-dip buffer, with no state transition and no change of the null
\* start and null end flags
C20_ShortBatchOnlyBuffered ==
    [][ ( /\ InLoop("FINDING_NULL_POWER_DIP")
          /\ N_remain < cfg.signal_l1_nb_samples
          /\ \/ curr_index' # curr_index
             \/ state' # state
             \/ is_null_start_found' # is_null_start_found
             \/ null_power_dip_buffer' # null_power_dip_buffer ) =>
            /\ curr_index' = buf_N
            /\ state' = "FINDING_NULL_POWER_DIP"
            /\ is_null_start_found' = is_null_start_found
            /\ is_null_end_found' = is_null_end_found
            /\ null_power_dip_buffer' =
                   Min(nb_null_period, null_power_dip_buffer + N_remain)
            /\ correlation_time_buffer' = correlation_time_buffer ]_vars

\* A batch of one sample, with blocks of two, has been consumed while the
\* start of a null had already been found
C20_Witness ==
    /\ ipc = "run"
    /\ state = "FINDING_NULL_POWER_DIP"
    /\ buf_N = 1
    /\ curr_index = 1
    /\ is_null_start_found
    /\ null_power_dip_buffer >= 1
\* The null-search part of the state, as ProcessFrom takes it
NullSearchState ==
    [state                   |-> state,
     is_null_start_found     |-> is_null_start_found,
     null_power_dip_buffer   |-> null_power_dip_buffer,
     correlation_time_buffer |-> correlation_time_buffer]

CoarseWindows == { <<-1, 2>>, <<0, 1>>, <<1, 4>>, <<1, 2>>, <<3, 2>> }

\* C22: for every impulse peak index in 0 .. nb_fft - 1 the PRS slice that
\* fine-time sync copies starts at nb_null_period + offset, not before the
\* start of correlation_time_buffer, ends at its end, and fits in the
\* inactive buffer; every index the coarse peak search reads is in
\* 0 .. nb_fft - 1, whatever window is configured
C22_IndicesInRange ==
    /\ [](\A ratio \in CoarseWindows \cup {cfg.max_coarse_freq_correction} :
              SearchIndices(ratio) \subseteq 0 .. nb_fft - 1)
    /\ [][ (state = "RUNNING_FINE_TIME_SYNC" /\ state' = "READING_SYMBOLS") =>
              LET offset          == fine_time_offset'
                  prs_start_index == nb_null_period + offset
                  prs_length      == nb_symbol_period - offset
              IN  /\ offset + nb_cyclic_prefix \in 0 .. nb_fft - 1
                  /\ prs_start_index >= 0
                  /\ prs_start_index + prs_length = correlation_time_buffer
                  /\ prs_length <= FrameCapacity
                  /\ inactive_buffer' = prs_length ]_vars

\* The impulse peak was at index 0, the earliest the search can return: the
\* slice starts nb_cyclic_prefix samples inside the NULL period
C22_Witness ==
    /\ state = "READING_SYMBOLS"
    /\ ipc = "run"
    /\ fine_time_offset = -nb_cyclic_prefix
    /\ inactive_buffer = nb_symbol_period + nb_cyclic_prefix
\* The transitions of the FSM
Transitions ==
    { <<"FINDING_NULL_POWER_DIP", "READING_NULL_AND_PRS">>,
      <<"READING_NULL_AND_PRS", "RUNNING_COARSE_FREQ_SYNC">>,
      <<"RUNNING_COARSE_FREQ_SYNC", "RUNNING_FINE_TIME_SYNC">>,
      <<"RUNNING_FINE_TIME_SYNC", "READING_SYMBOLS">>,
      <<"RUNNING_FINE_TIME_SYNC", "FINDING_NULL_POWER_DIP">>,
      <<"READING_SYMBOLS", "READING_NULL_AND_PRS">> }

\* C23: the FSM starts in FINDING_NULL_POWER_DIP, every change of state is
\* one of the six transitions, and no step taken inside a Process call while
\* the FSM is in RUNNING_COARSE_FREQ_SYNC or RUNNING_FINE_TIME_SYNC advances
\* the index into the batch
C23_Transitions ==
    /\ state = "FINDING_NULL_POWER_DIP"
    /\ [][ /\ state' # state => <<state, state'>> \in Transitions
           /\ ( /\ state \in {"RUNNING_COARSE_FREQ_SYNC", "RUNNING_FINE_TIME_SYNC"}
                /\ ipc # "idle" ) => curr_index' = curr_index ]_vars

\* Every transition has been taken: a frame was handed over, the next lock
\* was rejected, and the PRS capture has started again after a new null
C23_Witness ==
    /\ state = "READING_NULL_AND_PRS"
    /\ total_frames_desync = 1
    /\ events.global.ingest_start = 1
    /\ correlation_time_buffer < nb_null_period + nb_symbol_period
    /\ inactive_buffer = 0
    /\ ~is_found_coarse_freq_offset
\* Block b of cls is above the null end threshold and a null start has been
\* found before it: in an earlier batch, or by a block strictly before b
Detects(cls, start_found, b) ==
    /\ cls[b] = "high"
    /\ start_found \/ \E l \in 1 .. b - 1 : cls[l] = "low"

\* What the null search may answer for the blocks cls of a batch of N
\* samples: it ends at the end of the first detecting block, and it goes
\* through the whole batch when there is none
DetectionShape(cls, start_found, N, r) ==
    LET K == cfg.signal_l1_nb_samples
    IN  IF \E b \in 1 .. Len(cls) : Detects(cls, start_found, b)
        THEN /\ r.end
             /\ \E b \in 1 .. Len(cls) :
                    /\ Detects(cls, start_found, b)
                    /\ \A e \in 1 .. b - 1 : ~Detects(cls, start_found, e)
                    /\ r.nb_read = b * K
        ELSE /\ ~r.end
             /\ r.nb_read = N
             /\ r.start = (start_found \/ \E l \in 1 .. Len(cls) : cls[l] = "low")

\* C24: the FSM leaves FINDING_NULL_POWER_DIP only when a block above the
\* null end threshold comes strictly after a block below the null start
\* threshold (of this batch or an earlier one), so the block that sets the
\* start flag never ends the search; on the transition both flags are
\* cleared and the samples up to the end of the detecting block, and no
\* more, are consumed
C24_NullDipOrder ==
    /\ \A n \in 0 .. MaxBlocks :
          \A cls \in [1 .. n -> {"low", "mid", "high"}] :
              \A start_found \in BOOLEAN :
                  LET N == (n + 1) * cfg.signal_l1_nb_samples
                  IN  DetectionShape(cls, start_found, N,
                                     NullScan(cls, 1, start_found, N))
    /\ [][ (state = "FINDING_NULL_POWER_DIP" /\ state' # "FINDING_NULL_POWER_DIP") =>
              /\ ~is_null_start_found'
              /\ ~is_null_end_found'
              /\ \E cls \in [1 .. NbBlocks(N_remain) -> BlockClasses] :
                     \E b \in 1 .. Len(cls) :
                        /\ Detects(cls, is_null_start_found, b)
                        /\ curr_index' = curr_index + b * cfg.signal_l1_nb_samples
                        /\ curr_index' <= buf_N ]_vars

\* The null search has just ended on the first block of a batch of three
\* samples, the null start having been found in an earlier batch
C24_Witness ==
    /\ state = "READING_NULL_AND_PRS"
    /\ ipc = "run"
    /\ buf_N = MaxBatch
    /\ curr_index = cfg.signal_l1_nb_samples
    /\ zero_reads = 0
    /\ null_power_dip_buffer = 0
    /\ ~is_null_start_found
    /\ correlation_time_buffer >= cfg.signal_l1_nb_samples
\* C25: in FINDING_NULL_POWER_DIP every complete block of
\* signal_l1.nb_samples samples of the batch, the last one included, is
\* compared with the null thresholds: a batch with a complete block below
\* the null start threshold leaves the null start found (or the null found)
C25_EveryCompleteBlockExamined ==
    ( /\ ipc = "idle"
      /\ state = "FINDING_NULL_POWER_DIP"
      /\ signal_l1_average = "positive"
      /\ ~is_null_start_found ) =>
        LET K  == cfg.signal_l1_nb_samples
            s0 == [state                   |-> state,
                   is_null_start_found     |-> is_null_start_found,
                   null_power_dip_buffer   |-> null_power_dip_buffer,
                   correlation_time_buffer |-> correlation_time_buffer]
        IN  \A samples \in SampleSeqs :
                (\E b \in 1 .. Len(samples) \div K :
                    BlockClass(samples, (b - 1) * K) = "low") =>
                    LET s1 == ProcessFrom(s0, samples)
                    IN  \/ s1.is_null_start_found
                        \/ s1.state = "READING_NULL_AND_PRS"
\* C26: a coarse update with error = predicted - freq_coarse_offset applies
\* delta = error when |error| > 1.5 / nb_fft or no coarse estimate had been
\* found, and delta = coarse_freq_slow_beta * error otherwise; it adds delta
\* to freq_coarse_offset, sets is_found_coarse_freq_offset and hands -delta
\* to the fine offset update
C26_CoarseDelta ==
    [][ (InLoop("RUNNING_COARSE_FREQ_SYNC") /\ ipc' = "fine_lock") =>
            /\ is_found_coarse_freq_offset'
            /\ \E i \in PeakOffsets :
                  LET error == (-i) * FreqQ - freq_coarse_offset
                      fast  == \/ Abs(error) > large_offset_threshold
                               \/ ~is_found_coarse_freq_offset
                      slow  == TruncDiv(cfg.coarse_freq_slow_beta[1] * error,
                                        cfg.coarse_freq_slow_beta[2])
                      delta == IF fast THEN error ELSE slow
                  IN  /\ freq_coarse_offset' = freq_coarse_offset + delta
                      /\ i_local'.delta = -delta ]_vars

\* A slow update has been applied: the estimate had been found, the peak
\* moved by one bin and the coarse offset moved by a fraction of a bin
C26_Witness ==
    /\ ipc = "fine_lock"
    /\ state = "RUNNING_COARSE_FREQ_SYNC"
    /\ events.global.ingest_start >= 1
    /\ i_local.delta # 0
    /\ Abs(i_local.delta) < FreqQ
    /\ freq_coarse_offset = -i_local.delta
\* C27: a coarse update by delta leaves the combined offset
\* freq_coarse_offset + freq_fine_offset as it was: adding delta to the
\* coarse offset is balanced by the -delta handed to the fine offset update,
\* which adds it to freq_fine_offset and changes the sum no further, for
\* every delta, jumps of several FFT bins included
C27_CombinedOffsetKept ==
    [][ /\ (InLoop("RUNNING_COARSE_FREQ_SYNC") /\ ipc' = "fine_lock") =>
              freq_coarse_offset' + i_local'.delta = freq_coarse_offset
        /\ (ipc = "fine_lock" /\ ipc' = "fine_fmod") =>
              freq_coarse_offset' + freq_fine_offset'
                  = freq_coarse_offset + freq_fine_offset + i_local.delta
        /\ (ipc = "fine_fmod" /\ ipc' = "run") =>
              freq_coarse_offset' + freq_fine_offset'
                  = freq_coarse_offset + freq_fine_offset ]_vars
\* C28: with sync.is_coarse_freq_correction false the coarse sync step (the
\* one step that leaves RUNNING_COARSE_FREQ_SYNC straight from the handler
\* loop) sets freq_coarse_offset to 0, moves to RUNNING_FINE_TIME_SYNC,
\* consumes no samples, and leaves freq_fine_offset,
\* is_found_coarse_freq_offset and the correlation buffer as they were
C28_CoarseSyncSkipped ==
    [][ (InLoop("RUNNING_COARSE_FREQ_SYNC") /\ ipc' = "run" /\ zero_reads' # zero_reads) =>
            /\ freq_coarse_offset' = 0
            /\ state' = "RUNNING_FINE_TIME_SYNC"
            /\ curr_index' = curr_index
            /\ freq_fine_offset' = freq_fine_offset
            /\ is_found_coarse_freq_offset' = is_found_coarse_freq_offset
            /\ correlation_time_buffer' = correlation_time_buffer
            /\ correlation_time_buffer' = nb_null_period + nb_symbol_period ]_vars

\* The coarse sync has been skipped after an estimate of one bin had been
\* found: the coarse offset is back at zero, the flag is still set
C28_Witness ==
    /\ InLoop("RUNNING_FINE_TIME_SYNC")
    /\ freq_coarse_offset = 0
    /\ is_found_coarse_freq_offset
    /\ freq_fine_offset # 0
    /\ events.global.ingest_start >= 1
\* C29: for every impulse response the fine time synchronisation takes as
\* peak an index that maximises the weighted value, impulse_max is that
\* weighted maximum, the lock is accepted iff impulse_max - impulse_avg >=
\* impulse_peak_threshold_db, and an accepted lock sets fine_time_offset to
\* the peak index minus nb_cyclic_prefix
C29_WeightedPeak ==
    /\ InLoop("RUNNING_FINE_TIME_SYNC") =>
          \A impulse \in ImpulseResponses :
              LET peak == FindImpulsePeak(impulse)
              IN  /\ \A i \in 0 .. nb_fft - 1 :
                        WeightedPeak(impulse, peak.impulse_max_index)
                            >= WeightedPeak(impulse, i)
                  /\ peak.impulse_max_value
                        = WeightedPeak(impulse, peak.impulse_max_index)
    /\ state = "READING_SYMBOLS" =>
          fine_time_offset \in { i - nb_cyclic_prefix : i \in 0 .. nb_fft - 1 }
\* Steps of ReadSymbols once the inactive buffer is full, in order
ReadSymbolsOrder ==
    { <<"run", "wait_end">>, <<"wait_end", "swap">>, <<"swap", "reset">>,
      <<"reset", "signal_start">>, <<"signal_start", "run">> }

\* C30: when the inactive buffer becomes full ReadSymbols sets the
\* correlation buffer to the nb_null_period samples of the trailing NULL,
\* then waits for the coordinator's end, then swaps the buffers, then resets
\* the inactive buffer, then signals the start, and only then enters
\* READING_NULL_AND_PRS, where the PRS capture needs exactly
\* nb_symbol_period further samples; while the buffer is not full none of
\* these steps happens and the state is unchanged
C30_ReadSymbolsOrder ==
    [][ /\ ( /\ ipc' # ipc
              /\ {ipc, ipc'} \cap {"wait_end", "swap", "reset", "signal_start"} # {} ) =>
              /\ <<ipc, ipc'>> \in ReadSymbolsOrder
              /\ state = "READING_SYMBOLS"
        /\ (InLoop("READING_SYMBOLS") /\ inactive_buffer' < FrameCapacity) =>
              /\ ipc' = "run"
              /\ state' = state
              /\ correlation_time_buffer' = correlation_time_buffer
              /\ UNCHANGED << active_buffer_data, inactive_buffer_data >>
              /\ events'.global.wait_end = events.global.wait_end
              /\ events'.global.ingest_start = events.global.ingest_start
        /\ (InLoop("READING_SYMBOLS") /\ inactive_buffer' = FrameCapacity) =>
              /\ ipc' = "wait_end"
              /\ state' = state
              /\ correlation_time_buffer' = nb_null_period
              /\ UNCHANGED << active_buffer_data, inactive_buffer_data >>
        /\ (ipc = "wait_end" /\ ipc' = "swap") =>
              /\ coordinator.is_end \/ coordinator.is_terminated
              /\ ~coordinator'.is_end
              /\ UNCHANGED << active_buffer_data, inactive_buffer_data,
                              inactive_buffer, state >>
        /\ (ipc = "swap" /\ ipc' = "reset") =>
              /\ active_buffer_data' # active_buffer_data
              /\ inactive_buffer' = FrameCapacity
              /\ state' = state
        /\ (ipc = "reset" /\ ipc' = "signal_start") =>
              /\ inactive_buffer' = 0
              /\ ~coordinator'.is_start
              /\ state' = state
        /\ (ipc = "signal_start" /\ ipc' = "run") =>
              /\ coordinator'.is_start
              /\ state = "READING_SYMBOLS"
              /\ state' = "READING_NULL_AND_PRS"
              /\ correlation_time_buffer' = nb_null_period
              /\ CorrelationCapacity - correlation_time_buffer' = nb_symbol_period
              /\ inactive_buffer' = 0
      ]_vars

\* The second frame has been handed over in the middle of a batch: the FSM is
\* back in READING_NULL_AND_PRS with the trailing NULL in the correlation
\* buffer
C30_Witness ==
    /\ InLoop("READING_NULL_AND_PRS")
    /\ events.global.ingest_start = 2
    /\ events.global.wait_end = 2
    /\ correlation_time_buffer = nb_null_period
    /\ inactive_buffer = 0
\* C31: when the coordinator computes the fine frequency update of a cycle,
\* every worker has been started and has stored and signalled its phase
\* error sum in that same cycle, the sum it stored is that of the non-NULL
\* symbols of its range in the frame being processed, and the workers'
\* ranges of non-NULL symbols cover each symbol 0 .. nb_frame_symbols - 1
\* exactly once, so the total is that of the nb_frame_symbols symbols
C31_PhaseErrorsOfThisCycle ==
    cpc = "fine_lock" =>
        /\ \A w \in Workers :
              /\ events.worker[w].start = cycle
              /\ events.worker[w].phase_error = cycle
              /\ wpc[w] \notin {"apply_pll"}
              /\ pipeline[w].average_phase_error = TotalPhaseError(w)
        /\ \A s \in 0 .. nb_frame_symbols - 1 :
              Cardinality({ w \in Workers : /\ symbol_start(w) <= s
                                            /\ s < symbol_end_no_null(w) }) = 1
        /\ SumPhaseError(1) = nb_frame_symbols * buffer_data[active_buffer_data].phase

\* The same statement for the demodulators that have a worker
C31_WithWorkers == NbPipelines >= 1 => C31_PhaseErrorsOfThisCycle
\* C32: a worker that waits for its dependent's FFT signal goes on to the
\* DQPSK of a pair (s, s+1) whose first symbol lies in its own range (the
\* second being its own or the first one of the dependent), the FFT results
\* it reads are those of the frame being processed, and so are the inputs of
\* every soft bit written in the current cycle
C32_FFTWrittenBeforeRead ==
    /\ \A w \in Workers :
          /\ wpc[w] = "wait_fft" =>
                /\ symbol_start(w) <= symbol_end_dqpsk(w) - 1
                /\ symbol_end_dqpsk(w) <= symbol_start(w + 1)
          /\ w_local[w].loaded =>
                /\ w_local[w].fft_buf_0 = buffer_data[active_buffer_data].frame
                /\ w_local[w].fft_buf_1 = buffer_data[active_buffer_data].frame
    /\ \A k \in DOMAIN pipeline_out_bits :
          ( /\ cpc \notin {"wait_start", "notify", "exited"}
            /\ pipeline_out_bits[k].cycle = cycle ) =>
                /\ pipeline_out_bits[k].f0 = buffer_data[active_buffer_data].frame
                /\ pipeline_out_bits[k].f1 = buffer_data[active_buffer_data].frame

\* C33: for every worker count from 1 to nb_frame_symbols + 1 an output
\* slot is only ever written by the worker whose symbol range contains the
\* slot's symbol, and when the frame is notified every slot has been
\* written in that cycle, by that one worker
C33_OutputOwnedByRange ==
    NbPipelines >= 1 =>
        \A k \in DOMAIN pipeline_out_bits :
            LET s  == k \div nb_viterbi_bits
                by == pipeline_out_bits[k].by
            IN  /\ by # 0 => /\ by \in Workers
                             /\ symbol_start(by) <= s
                             /\ s < symbol_end(by)
                /\ cpc = "notify" => /\ by # 0
                                     /\ pipeline_out_bits[k].cycle = cycle
\* Workers that hold their snapshot of the frequency offsets
Snapshotted == { w \in Workers : wpc[w] \in {"fft_first", "fft_rest", "wait_fft", "signal_end"} }

\* C34: the workers of one frame all hold the same snapshot of
\* freq_coarse_offset, and ingest does not change freq_coarse_offset from
\* the SignalStart of a frame until every worker has taken its snapshot for
\* that frame
C34_SameCoarseSnapshot ==
    /\ [](\A v, w \in Snapshotted : w_local[v].coarse = w_local[w].coarse)
    /\ [][ (\E w \in Workers : events.worker[w].phase_error < events.global.ingest_start) =>
              freq_coarse_offset' = freq_coarse_offset ]_vars
\* C35: from the coordinator's SignalEnd until the observer's notification
\* has returned every worker is parked with no start signal pending, and no
\* step in between changes pipeline_out_bits or pipeline_fft_buffer,
\* whatever ingest does with the next frame meanwhile
C35_NoWriteDuringNotify ==
    /\ [](cpc = "notify" =>
            /\ \A w \in Workers : wpc[w] = "wait_start" /\ ~pipeline[w].is_start
            /\ events.global.coord_end = events.global.notify + 1)
    /\ [][ cpc = "notify" =>
              UNCHANGED << pipeline_out_bits, pipeline_fft_buffer >> ]_vars

\* The observer is being notified of the first frame while ingest has
\* already handed over the second one
C35_Witness ==
    /\ cpc = "notify"
    /\ NbPipelines = MaxThreads
    /\ events.global.notify = 0
    /\ events.global.ingest_start = 2
    /\ coordinator.is_start
\* C36: CreateThreads creates at least one pipeline worker whatever
\* nb_desired_threads and hardware_concurrency() are, so whenever the
\* coordinator notifies the observer of a frame, some worker has processed
\* the frame in that cycle
C36_AtLeastOneWorker ==
    /\ NbPipelines = NbThreads(ctor.nb_desired_threads, ctor.total_system_threads)
    /\ NbPipelines >= 1
    /\ cpc = "notify" => \E w \in Workers : events.worker[w].end = cycle
\* round(num / den) for den > 0, halves away from zero
RoundDiv(num, den) ==
    IF num >= 0 THEN (2 * num + den) \div (2 * den)
    ELSE -((2 * (-num) + den) \div (2 * den))

\* C37: for every DQPSK vector, the zero vector included, the two soft bits
\* of a carrier are integers in -A .. A with A = SOFT_DECISION_VITERBI_HIGH,
\* equal to round(-x * A) for x the component divided by the larger of the
\* two magnitudes (and 0 for the zero vector); the real-part bit of carrier i
\* goes to index i and the imaginary-part bit to index i + nb_data_carriers,
\* so the written indices are the 2 * nb_data_carriers positions of the
\* symbol, each once, and every slot a worker has written is one of them
C37_SoftBits ==
    /\ \A vec \in DqpskVectors :
          LET A == IF Abs(vec[1]) > Abs(vec[2]) THEN Abs(vec[1]) ELSE Abs(vec[2])
          IN  \A bits \in ViterbiBitsOf(vec) :
                /\ bits[1] \in -SOFT_DECISION_VITERBI_HIGH .. SOFT_DECISION_VITERBI_HIGH
                /\ bits[2] \in -SOFT_DECISION_VITERBI_HIGH .. SOFT_DECISION_VITERBI_HIGH
                /\ A > 0 =>
                      /\ bits[1] = RoundDiv(-vec[1] * SOFT_DECISION_VITERBI_HIGH, A)
                      /\ bits[2] = RoundDiv(vec[2] * SOFT_DECISION_VITERBI_HIGH, A)
    /\ ViterbiIndices = 0 .. nb_viterbi_bits - 1
    /\ \A i, j \in 0 .. nb_data_carriers - 1 : i # j + nb_data_carriers
    /\ \A k \in DOMAIN pipeline_out_bits :
          pipeline_out_bits[k].by # 0 =>
              (k % nb_viterbi_bits) \in ViterbiIndices

\* ------------------------------------------------------------------------
\* PAD dynamic label decoder: the caller of ProcessXPAD
\* ------------------------------------------------------------------------
OfdmUnchanged ==
    UNCHANGED << cfg, ctor, pipelines, ingestVars, freqVars, bufferVars,
                 resultVars, coordVars, workerVars, dtorVars, events >>

\* The decoder proper, without the caller's locals and the history
Decoder(p) ==
    << p.state, p.group_type, p.previous_toggle_flag, p.data_group,
       p.assembler >>

\* The loop body of ProcessXPAD after ConsumeBuffer has returned r
AfterConsumeBuffer(r) ==
    [r.pad EXCEPT !.nb_read = r.nb_read,
                  !.curr_byte = @ + r.nb_read,
                  !.curr_is_start = FALSE]

\* ProcessXPAD is entered with a buffer of N bytes
ProcessXPAD(is_start, N) ==
    /\ pad.xpc = "idle"
    /\ pad' = [pad EXCEPT !.xpc = "loop", !.N = N, !.curr_byte = 0,
                          !.curr_is_start = is_start, !.nb_read = 0,
                          !.outcome = "none", !.header_read = FALSE]
    /\ OfdmUnchanged

\* One pass of the loop of ProcessXPAD: a ConsumeBuffer call on the rest.
\* Header bytes are drawn where the call can reach the end of the header,
\* the CRC verdict and the assembler's answer where it can reach the end of
\* the group
ProcessXPADConsume ==
    /\ pad.xpc = "loop"
    /\ pad.curr_byte < pad.N
    /\ \E hdr \in IF pad.curr_is_start \/ pad.state = "READ_LENGTH"
                  THEN HeaderBytes ELSE {NoHeader},
          crc_ok \in IF pad.curr_is_start \/ pad.state # "WAIT_START"
                     THEN BOOLEAN ELSE {TRUE} :
        \E is_changed \in IF crc_ok THEN BOOLEAN ELSE {FALSE} :
          \E r \in { ConsumeBuffer(pad, pad.curr_is_start,
                                  pad.N - pad.curr_byte, hdr, crc_ok,
                                  is_changed) } : pad' = AfterConsumeBuffer(r)
    /\ OfdmUnchanged

\* The loop of ProcessXPAD ends and its locals go out of scope
ProcessXPADReturn ==
    /\ pad.xpc = "loop"
    /\ pad.curr_byte >= pad.N
    /\ pad' = [pad EXCEPT !.xpc = "idle", !.N = 0, !.curr_byte = 0,
                          !.curr_is_start = FALSE, !.nb_read = 0,
                          !.outcome = "none", !.header_read = FALSE]
    /\ OfdmUnchanged

\* The application feeds X-PAD buffers of up to MaxPadBytes bytes, with and
\* without the start flag; the demodulator is constructed and left alone
InitPad == Constructed(WideBlock, {2}, {0}) /\ Started

NextPad ==
    \/ \E is_start \in BOOLEAN, N \in 0 .. MaxPadBytes :
            ProcessXPAD(is_start, N)
    \/ ProcessXPADConsume
    \/ ProcessXPADReturn

\* The thread inside ProcessXPAD keeps running
SpecPad ==
    /\ InitPad
    /\ [][NextPad]_vars
    /\ WF_vars(ProcessXPADConsume)
    /\ WF_vars(ProcessXPADReturn)

\* C38: ProcessXPAD terminates for every buffer and every reachable state:
\* each ConsumeBuffer call on a non-empty remainder returns a count between
\* 1 and the remaining length, the start flag is applied to the first call
\* only, and the bytes that follow a completed or CRC-rejected data group
\* in the same buffer are discarded without changing the decoder
C38_ProcessXPADTerminates ==
    /\ [](pad.curr_is_start => pad.curr_byte = 0)
    /\ [][ pad.xpc = "loop" /\ pad.curr_byte < pad.N =>
              /\ pad'.nb_read >= 1
              /\ pad'.nb_read <= pad.N - pad.curr_byte
              /\ pad'.curr_byte = pad.curr_byte + pad'.nb_read
              /\ ~pad'.curr_is_start
              /\ pad.state = "WAIT_START" /\ ~pad.curr_is_start =>
                    /\ Decoder(pad') = Decoder(pad)
                    /\ pad'.curr_byte = pad.N ]_vars
    /\ (pad.xpc = "loop") ~> (pad.xpc = "idle")

\* The rest of a buffer was discarded after a data group ended inside it
C38_Witness ==
    /\ pad.xpc = "loop"
    /\ pad.outcome = "discard"
    /\ pad.curr_byte = pad.N
    /\ pad.nb_read >= 1
    /\ pad.nb_read < pad.N

\* C39: a data group whose CRC check fails has no effect on the label: no
\* observer is notified, the decoder is back in WAIT_START with an empty
\* data group, and the assembler contents and previous_toggle_flag are what
\* they were before the group started
C39_CrcFailureHasNoEffect ==
    pad.outcome = "crc_mismatch" =>
        /\ pad.outcome \notin {"label_change", "command_clear"}
        /\ pad.state = "WAIT_START"
        /\ pad.data_group.nb_curr_bytes = 0
        /\ pad.data_group.nb_required_bytes = MIN_DATA_GROUP_BYTES
        /\ pad.assembler = pad.group_start.assembler
        /\ pad.previous_toggle_flag = pad.group_start.previous_toggle_flag

\* What does hold of a CRC-rejected group: the decoder is back in
\* WAIT_START with an empty data group, and the toggle flag and assembler
\* differ from those at the start of the group only by the reset that
\* ReadGroupHeader makes for a label segment with the other toggle bit
C39_CrcFailureAfterHeader ==
    pad.outcome = "crc_mismatch" =>
        /\ pad.state = "WAIT_START"
        /\ pad.data_group.nb_curr_bytes = 0
        /\ \/ /\ pad.assembler = pad.group_start.assembler
              /\ pad.previous_toggle_flag =
                    pad.group_start.previous_toggle_flag
           \/ /\ pad.group_type = "LABEL_SEGMENT"
              /\ pad.assembler = AssemblerInit
              /\ pad.previous_toggle_flag #
                    pad.group_start.previous_toggle_flag

\* Bytes of the current data group held when a ConsumeBuffer call begins
HeldAtCall(p) == IF p.curr_is_start THEN 0 ELSE p.data_group.nb_curr_bytes

\* C40: a command data group (control flag set) ignores the toggle flag:
\* whatever its toggle bit, it never changes previous_toggle_flag and never
\* resets the label assembler, and it requires exactly 4 bytes (2 header +
\* 2 CRC); only a label-segment group whose toggle bit differs from
\* previous_toggle_flag resets the assembler
C40_CommandIgnoresToggle ==
    /\ [](\A hdr \in HeaderBytes :
            LET q == ReadGroupHeader(pad, hdr)
            IN  IF hdr.control_flag = 1
                THEN /\ q.group_type = "COMMAND"
                     /\ q.previous_toggle_flag = pad.previous_toggle_flag
                     /\ q.assembler = pad.assembler
                     /\ q.data_group.nb_required_bytes = 4
                ELSE IF hdr.toggle_flag # pad.previous_toggle_flag
                THEN /\ q.previous_toggle_flag = hdr.toggle_flag
                     /\ q.assembler = AssemblerInit
                ELSE /\ q.previous_toggle_flag = pad.previous_toggle_flag
                     /\ q.assembler = pad.assembler)
    /\ [][ pad.xpc = "loop" =>
              /\ pad'.header_read /\ pad'.group_type = "COMMAND" =>
                    /\ pad'.previous_toggle_flag = pad.previous_toggle_flag
                    /\ pad'.assembler = pad.assembler
                    /\ IF pad.N - pad.curr_byte >= 4 - HeldAtCall(pad)
                       THEN /\ pad'.nb_read = 4 - HeldAtCall(pad)
                            /\ pad'.state = "WAIT_START"
                            /\ pad'.outcome \in {"crc_mismatch",
                                    "command_clear", "command_other"}
                       ELSE /\ pad'.nb_read = pad.N - pad.curr_byte
                            /\ pad'.state = "READ_DATA"
                            /\ pad'.data_group.nb_required_bytes = 4
              /\ \/ pad'.previous_toggle_flag # pad.previous_toggle_flag
                 \/ ~(pad.assembler.segments \subseteq
                            pad'.assembler.segments)
                 => /\ pad'.header_read
                    /\ pad'.group_type = "LABEL_SEGMENT"
                    /\ pad'.previous_toggle_flag #
                            pad.previous_toggle_flag ]_vars

\* The header of a command group with the other toggle bit has been read
\* while the assembler holds a segment
C40_Witness ==
    /\ pad.header_read
    /\ pad.state = "READ_DATA"
    /\ pad.group_type = "COMMAND"
    /\ pad.data_group.data.control_flag = 1
    /\ pad.data_group.data.toggle_flag # pad.previous_toggle_flag
    /\ pad.assembler.segments # {}
====
